---- MODULE Spec2Model ----
(***************************************************************************)
(* A model of pyvatti (hattivatti): the job state machine                  *)
(* (pgsjob.PolygenicScoreJob), the resource handler                        *)
(* (resources.GoogleResourceHandler), the job store                        *)
(* (db.SqliteJobDatabase) and the daemon of main.py (bus consumer, the     *)
(* scheduled sweeps and the bus producer).                                 *)
(***************************************************************************)
EXTENDS Integers, Sequences, FiniteSets, TLC

(***************************************************************************)
(* Bounds of the model.                                                    *)
(***************************************************************************)
\* number of launch messages the consumer reads from the topic
MaxMessages == 1
\* last value of the clock (seconds are abstracted to ticks)
MaxTime == 2
\* number of objects a library client constructs by hand
MaxClientJobs == 1
\* length of the notify queue beyond which the client fires no trigger
MaxQueue == 2

(***************************************************************************)
(* Settings (config.Settings), scaled to the clock of the model.           *)
(***************************************************************************)
TIMEOUT_SECONDS == 1
DEPLOYED_TIMEOUT_SECONDS == 2
MAX_CONCURRENT_JOBS == 2

(***************************************************************************)
(* Job ids.  PGSJobParams.id must match "INTP.*"; two ids that differ only *)
(* in letter case are different primary keys but lower-case to the same    *)
(* handler id.                                                             *)
(***************************************************************************)
Ids == {"INTPA", "INTPa", "INTPB", "INTPC"}

Lower(id) ==
    CASE id = "INTPB" -> "intpb"
      [] id = "INTPC" -> "intpc"
      [] OTHER -> "intpa"

\* jobstates.States
REQUESTED == "Requested"
CREATED == "Created"
DEPLOYED == "Deployed"
SUCCEEDED == "Succeeded"
FAILED == "Failed"

States == {REQUESTED, CREATED, DEPLOYED, SUCCEEDED, FAILED}

Terminal == {SUCCEEDED, FAILED}

Triggers == {"create", "deploy", "succeed", "error"}

\* Optional[...] = None
None == "None"
NoExit == -1

\* one row of a transition table
Transition(trig, source, dest, prepare, after) ==
    [ trigger |-> trig, source |-> source, dest |-> dest,
      prepare |-> prepare, after |-> after ]

\* the rows of the table for create, deploy and succeed
UpToSucceed ==
    { Transition("create", REQUESTED, CREATED, <<"create_resources">>, << >>),
      Transition("deploy", CREATED, DEPLOYED, << >>, <<"notify">>),
      Transition("succeed", DEPLOYED, SUCCEEDED, << >>,
                 <<"notify", "destroy_resources">>) }

\* the table with deploy accepted in Requested as well
transitions_deploy_from_requested ==
    UpToSucceed
    \cup { Transition("deploy", REQUESTED, DEPLOYED, << >>, <<"notify">>) }
    \cup { Transition("error", s, FAILED, << >>,
                      <<"notify", "destroy_resources">>) :
             s \in {REQUESTED, CREATED, DEPLOYED} }

\* the table with the after hooks of error in the other order
transitions_destroy_first ==
    UpToSucceed
    \cup { Transition("error", s, FAILED, << >>,
                      <<"destroy_resources", "notify">>) :
             s \in {REQUESTED, CREATED, DEPLOYED} }

(***************************************************************************)
(* PolygenicScoreJob.transitions: the transition table.  Hooks are named   *)
(* by strings and dispatched in list order.                                *)
(***************************************************************************)
transitions ==
    { [trigger |-> "create", source |-> REQUESTED, dest |-> CREATED,
       prepare |-> <<"create_resources">>, after |-> << >>],
      [trigger |-> "deploy", source |-> CREATED, dest |-> DEPLOYED,
       prepare |-> << >>, after |-> <<"notify">>],
      [trigger |-> "succeed", source |-> DEPLOYED, dest |-> SUCCEEDED,
       prepare |-> << >>, after |-> <<"notify", "destroy_resources">>],
      [trigger |-> "error", source |-> REQUESTED, dest |-> FAILED,
       prepare |-> << >>, after |-> <<"notify", "destroy_resources">>],
      [trigger |-> "error", source |-> CREATED, dest |-> FAILED,
       prepare |-> << >>, after |-> <<"notify", "destroy_resources">>],
      [trigger |-> "error", source |-> DEPLOYED, dest |-> FAILED,
       prepare |-> << >>, after |-> <<"notify", "destroy_resources">>] }

\* PolygenicScoreJob.state_trigger_map
state_trigger_map(dest) ==
    CASE dest = FAILED -> "error"
      [] dest = SUCCEEDED -> "succeed"
      [] dest = DEPLOYED -> "deploy"

(***************************************************************************)
(* Bucket and release names of a handler (GoogleResourceHandler.__init__). *)
(***************************************************************************)
work_bucket(id) == <<Lower(id), "work">>
results_bucket(id) == <<Lower(id), "results">>
release_name(id) == Lower(id)

BucketNames == { work_bucket(i) : i \in Ids } \cup { results_bucket(i) : i \in Ids }

(***************************************************************************)
(* PolygenicScoreJob.__init__: a new machine is in Requested, its handler  *)
(* flags are all false and it has no trace.                                *)
(***************************************************************************)
NewJob(id, dry_run) ==
    [ intp_id |-> id, dry_run |-> dry_run, state |-> REQUESTED,
      helm_installed |-> FALSE,
      work_bucket_existed_on_create |-> FALSE,
      results_bucket_existed_on_create |-> FALSE,
      trace_name |-> None, trace_exit |-> NoExit ]

(***************************************************************************)
(* The outcomes of the external calls of one trigger call, chosen by the   *)
(* environment: bucket create / delete requests, helm install / uninstall. *)
(***************************************************************************)
StorageOutcomes == {"ok", "fails"}
HelmInstallOutcomes == {"ok", "ValueError", "OSError"}

EnvOK == [ storage |-> "ok", helm_install |-> "ok", helm_uninstall_ok |-> TRUE ]

\* keyword arguments of a trigger call: which of queue, job_model are given
NoKwargs == [ queue |-> FALSE, job_model |-> FALSE ]

(***************************************************************************)
(* A world is what one trigger call reads and writes: the machine m, the   *)
(* cloud (buckets, releases), the notify queue, the exception in flight    *)
(* (exc, "none" when there is none), the list of hook calls made and the   *)
(* list of triggers fired, the caller's first; utc is the time of the call *)
(* (datetime.now()).                                                       *)
(***************************************************************************)
World(m, b, r, q, t) ==
    [ m |-> m, buckets |-> b, releases |-> r, queue |-> q, utc |-> t,
      exc |-> "none", hooks |-> << >>, fired |-> << >> ]

HookCall(name, trig, state, result, created, deleted, uninstalled) ==
    [ name |-> name, trigger |-> trig, state |-> state, result |-> result,
      created |-> created, deleted |-> deleted, uninstalled |-> uninstalled ]

(***************************************************************************)
(* GoogleResourceHandler._make_work_bucket / _make_results_bucket: a       *)
(* bucket that exists is flagged and FileExistsError raised; otherwise the *)
(* bucket is created.  The storage service may refuse a request; the model *)
(* lets it refuse the first bucket request of a call (env.storage).        *)
(***************************************************************************)
make_work_bucket(W, env) ==
    LET b == work_bucket(W.m.intp_id) IN
    IF b \in W.buckets
    THEN [W EXCEPT !.m.work_bucket_existed_on_create = TRUE,
                   !.exc = "FileExistsError"]
    ELSE IF env.storage = "fails"
    THEN [W EXCEPT !.exc = "GoogleAPIError"]
    ELSE [W EXCEPT !.buckets = @ \cup {b}]

make_results_bucket(W, env) ==
    LET b == results_bucket(W.m.intp_id) IN
    IF b \in W.buckets
    THEN [W EXCEPT !.m.results_bucket_existed_on_create = TRUE,
                   !.exc = "FileExistsError"]
    ELSE [W EXCEPT !.buckets = @ \cup {b}]

\* GoogleResourceHandler.make_buckets: work bucket first, then results
make_buckets(W, env) ==
    LET W1 == make_work_bucket(W, env) IN
    IF W1.exc # "none" THEN W1 ELSE make_results_bucket(W1, env)

(***************************************************************************)
(* resources.helm_install: "ok" when helm returns 0, ValueError when it    *)
(* returns non-zero (always so when the release name is in use), another   *)
(* exception (OSError) when the command cannot be run at all.              *)
(***************************************************************************)
helm_install(W, env) ==
    IF release_name(W.m.intp_id) \in W.releases /\ env.helm_install = "ok"
    THEN "ValueError"
    ELSE env.helm_install

\* a create_resources that sets the flag before it runs the install
handler_create_resources_flag_first(W, env) ==
    IF W.m.dry_run THEN W
    ELSE
    LET W1 == make_buckets(W, env) IN
    IF W1.exc # "none" THEN W1
    ELSE LET h == helm_install(W1, env)
             W2 == [W1 EXCEPT !.m.helm_installed = TRUE]
         IN
         CASE h = "ok" ->
                [W2 EXCEPT !.releases = @ \cup {release_name(W.m.intp_id)}]
           [] h = "ValueError" -> W2
           [] OTHER -> [W2 EXCEPT !.exc = h]

(***************************************************************************)
(* GoogleResourceHandler.create_resources: make the buckets, then install  *)
(* the chart; a ValueError of the install is caught and only recorded in   *)
(* the chart-installed flag.                                               *)
(***************************************************************************)
handler_create_resources(W, env) ==
    IF W.m.dry_run THEN W
    ELSE
    LET W1 == make_buckets(W, env) IN
    IF W1.exc # "none" THEN W1
    ELSE LET h == helm_install(W1, env) IN
         CASE h = "ok" ->
                [W1 EXCEPT !.releases = @ \cup {release_name(W.m.intp_id)},
                           !.m.helm_installed = TRUE]
           [] h = "ValueError" ->
                [W1 EXCEPT !.m.helm_installed = FALSE]
           [] OTHER -> [W1 EXCEPT !.exc = h]

(***************************************************************************)
(* resources.helm_uninstall: ValueError when helm returns non-zero, which  *)
(* it always does when there is no such release.                           *)
(***************************************************************************)
helm_uninstall(W, env) ==
    LET r == release_name(W.m.intp_id) IN
    IF r \in W.releases /\ env.helm_uninstall_ok
    THEN [W EXCEPT !.releases = @ \ {r}]
    ELSE [W EXCEPT !.exc = "ValueError"]

\* _delete_buckets without the check of the work-bucket-existed flag
delete_buckets_unguarded(W, results, env) ==
    LET wb == work_bucket(W.m.intp_id)
        rb == results_bucket(W.m.intp_id)
    IN
    IF wb \notin W.buckets THEN [W EXCEPT !.exc = "NotFound"]
    ELSE LET W1 == [W EXCEPT !.buckets = @ \ {wb}] IN
         IF ~results \/ rb \notin W1.buckets THEN W1
         ELSE [W1 EXCEPT !.buckets = @ \ {rb}]

(***************************************************************************)
(* GoogleResourceHandler._delete_buckets: nothing is deleted when the work *)
(* bucket existed on create; get_bucket raises NotFound for a bucket that  *)
(* does not exist; the work bucket is deleted, then the results bucket     *)
(* when results is set.                                                    *)
(***************************************************************************)
delete_buckets(W, results, env) ==
    LET wb == work_bucket(W.m.intp_id)
        rb == results_bucket(W.m.intp_id)
    IN
    IF W.m.work_bucket_existed_on_create THEN W
    ELSE IF wb \notin W.buckets THEN [W EXCEPT !.exc = "NotFound"]
    ELSE IF env.storage = "fails" THEN [W EXCEPT !.exc = "GoogleAPIError"]
    ELSE LET W1 == [W EXCEPT !.buckets = @ \ {wb}] IN
         IF ~results THEN W1
         ELSE IF rb \notin W1.buckets THEN [W1 EXCEPT !.exc = "NotFound"]
         ELSE [W1 EXCEPT !.buckets = @ \ {rb}]

\* a destroy_resources that cleans up only what an installed chart used
handler_destroy_resources_if_installed(W, state, env) ==
    IF W.m.dry_run \/ ~W.m.helm_installed THEN W
    ELSE
    LET W1 == helm_uninstall(W, env) IN
    IF W1.exc # "none" THEN W1
    ELSE delete_buckets(W1, state = FAILED, env)

\* a destroy_resources that deletes the results bucket in every state
handler_destroy_resources_both(W, state, env) ==
    IF W.m.dry_run THEN W
    ELSE
    LET W1 == IF W.m.helm_installed THEN helm_uninstall(W, env) ELSE W IN
    IF W1.exc # "none" THEN W1
    ELSE delete_buckets(W1, TRUE, env)

(***************************************************************************)
(* GoogleResourceHandler.destroy_resources(state): uninstall the chart if  *)
(* the chart-installed flag is set, then delete the buckets, the results   *)
(* bucket only for state Failed.                                           *)
(***************************************************************************)
handler_destroy_resources(W, state, env) ==
    IF W.m.dry_run THEN W
    ELSE
    LET W1 == IF W.m.helm_installed THEN helm_uninstall(W, env) ELSE W IN
    IF W1.exc # "none" THEN W1
    ELSE delete_buckets(W1, state = FAILED, env)

\* adds the record of one hook call to the world that results from it
Logged(W0, W1, name, trig) ==
    [W1 EXCEPT !.hooks = Append(@,
        HookCall(name, trig, W0.m.state, W1.exc,
                 W1.buckets \ W0.buckets, W0.buckets \ W1.buckets,
                 W0.releases \ W1.releases))]

(***************************************************************************)
(* The hooks of the machine.                                               *)
(* PolygenicScoreJob.create_resources: a Google handler needs the          *)
(* job_model keyword.                                                      *)
(***************************************************************************)
create_resources(W, trig, kw, env) ==
    Logged(W,
           IF ~kw.job_model /\ ~W.m.dry_run
           THEN [W EXCEPT !.exc = "ValueError"]
           ELSE handler_create_resources(W, env),
           "create_resources", trig)

\* PolygenicScoreJob.destroy_resources: event.state is the machine's state
destroy_resources(W, trig, kw, env) ==
    Logged(W, handler_destroy_resources(W, W.m.state, env),
           "destroy_resources", trig)

\* the BackendStatusMessage that notify builds from the machine
StatusMessage(m, t) ==
    [ run_name |-> m.intp_id, utc_time |-> t, event |-> m.state,
      trace_name |-> m.trace_name, trace_exit |-> m.trace_exit ]

\* a serialiser that writes every field of the message (the default one)
serialize_all_fields(msg) ==
    [ run_name |-> msg.run_name, utc_time |-> msg.utc_time,
      event |-> msg.event,
      trace_name |-> msg.trace_name, trace_exit |-> msg.trace_exit ]

(***************************************************************************)
(* BackendStatusMessage.serialize_model: the JSON object of a message, a   *)
(* record whose domain is the set of keys.  The trace keys are written     *)
(* only for event Failed (None stands for null).                           *)
(***************************************************************************)
serialize_model(msg) ==
    IF msg.event = FAILED
    THEN [ run_name |-> msg.run_name, utc_time |-> msg.utc_time,
           event |-> msg.event,
           trace_name |-> msg.trace_name, trace_exit |-> msg.trace_exit ]
    ELSE [ run_name |-> msg.run_name, utc_time |-> msg.utc_time,
           event |-> msg.event ]

\* PolygenicScoreJob.notify: needs the queue keyword, puts one message
notify(W, trig, kw, env) ==
    Logged(W,
           IF ~kw.queue
           THEN [W EXCEPT !.exc = "TypeError"]
           ELSE [W EXCEPT !.queue = Append(@, StatusMessage(W.m, W.utc))],
           "notify", trig)

\* dispatch of a hook by its name
Hook(name, W, trig, kw, env) ==
    CASE name = "create_resources" -> create_resources(W, trig, kw, env)
      [] name = "notify" -> notify(W, trig, kw, env)
      [] name = "destroy_resources" -> destroy_resources(W, trig, kw, env)

\* Machine.callbacks: the hooks run in list order up to the first that raises
RECURSIVE Callbacks(_, _, _, _, _)
Callbacks(names, W, trig, kw, env) ==
    IF names = << >> \/ W.exc # "none" THEN W
    ELSE Callbacks(Tail(names), Hook(Head(names), W, trig, kw, env),
                   trig, kw, env)

\* the transitions of a trigger from a state (Event.transitions[state])
TransitionsOf(trig, state) ==
    { t \in transitions : t.trigger = trig /\ t.source = state }

(***************************************************************************)
(* model.trigger(trig, **kw) of the transitions library, as configured in  *)
(* PolygenicScoreJob.__init__ (on_exception = handle_error):               *)
(*  - no transition from the state: MachineError;                          *)
(*  - else prepare hooks, change of state, after hooks;                    *)
(*  - an exception goes to handle_error, which re-raises a MachineError    *)
(*    and otherwise calls self.trigger("error") with no keyword at all.    *)
(***************************************************************************)
RECURSIVE Fire(_, _, _, _)
\* a handle_error that re-raises whatever it is given
handle_error_reraise(W, env) == W

\* a handle_error that logs a MachineError and does not raise it
handle_error_swallow(W, env) ==
    IF W.exc = "MachineError" THEN [W EXCEPT !.exc = "none"]
    ELSE Fire([W EXCEPT !.exc = "none"], "error", NoKwargs, env)

handle_error(W, env) ==
    IF W.exc = "MachineError" THEN W
    ELSE Fire([W EXCEPT !.exc = "none"], "error", NoKwargs, env)

Fire(W0, trig, kw, env) ==
    LET W == [W0 EXCEPT !.fired = Append(@, trig)]
        ts == TransitionsOf(trig, W.m.state)
    IN
    IF ts = {} THEN handle_error([W EXCEPT !.exc = "MachineError"], env)
    ELSE LET t == CHOOSE x \in ts : TRUE
             W1 == Callbacks(t.prepare, W, trig, kw, env)
         IN
         IF W1.exc # "none" THEN handle_error(W1, env)
         ELSE LET W2 == [W1 EXCEPT !.m.state = t.dest]
                  W3 == Callbacks(t.after, W2, trig, kw, env)
              IN
              IF W3.exc # "none" THEN handle_error(W3, env) ELSE W3

(***************************************************************************)
(* State.                                                                  *)
(*  db        the jobs table: id -> row (state column, job blob, created_at)*)
(*  buckets   the storage buckets that exist                               *)
(*  releases  the chart releases installed on the cluster                  *)
(*  queue     the notify queue (msg_queue of main)                         *)
(*  now       the clock                                                    *)
(*  consumed  number of launch messages read by the consumer               *)
(*  main      "running", or "crashed" once an exception left the main loop *)
(*  objs      the job object held by a client of the library (doctests)    *)
(*  made      number of objects the client has constructed                 *)
(*  last      the trigger calls made by the latest step, in order          *)
(*  rows      the number of rows of the jobs table that carry each id      *)
(*  pc        where the consumer thread is in kafka_consumer               *)
(*  cur       the launch message the consumer has in hand, and its outcome *)
(*  held      the job object of process_message                           *)
(*  seen      the consumer's latest reading of the number of active jobs   *)
(*  commits   number of consumer.commit() calls                            *)
(*  arg       the BackendStatusMessage last serialised                     *)
(*  sent      its serialised form (model_dump_json)                        *)
(*  KAFKA_CONSUMER_NOT_OK, KAFKA_PRODUCER_NOT_OK  the two threading.Events *)
(*  kafka_fail_count  the counter of main()                                *)
(*  producer  "running", or "KafkaError" once that ended the producer      *)
(*  pending   the job a task of the main loop has triggered and not yet    *)
(*            written back with update_job (empty between two jobs)        *)
(*  polled    the answers of the platform in the latest pass of            *)
(*            check_job_state, for the jobs the pass came to               *)
(*  project   the buckets of the cloud project as list_buckets() returns   *)
(*            them to bucket_clean_up: name and time_created               *)
(*  cleanup   the latest run of bucket_clean_up (empty before the first):  *)
(*            when it ran, what was listed, which buckets it called        *)
(*            delete on and which of these calls raised                    *)
(*  earlier   the notifications that the processes before this one put on  *)
(*            their notify queues, in order (the database file outlives a  *)
(*            process, the queue does not)                                 *)
(***************************************************************************)
VARIABLES db, buckets, releases, queue, now, consumed, main, objs, made, last,
          rows, pc, cur, held, seen, commits, arg, sent,
          KAFKA_CONSUMER_NOT_OK, KAFKA_PRODUCER_NOT_OK, kafka_fail_count,
          producer, pending, polled, project, cleanup, earlier

vars == <<db, buckets, releases, queue, now, consumed, main, objs, made, last,
          rows, pc, cur, held, seen, commits, arg, sent,
          KAFKA_CONSUMER_NOT_OK, KAFKA_PRODUCER_NOT_OK, kafka_fail_count,
          producer, pending, polled, project, cleanup, earlier>>

\* the variables of the consumer thread
consumerVars == <<pc, cur, held, seen, commits>>

\* the variables of the serialiser
wireVars == <<arg, sent>>

\* the variables of bucket_clean_up
gcsVars == <<project, cleanup>>

\* the variables of the supervision of the bus threads
busVars == <<KAFKA_CONSUMER_NOT_OK, KAFKA_PRODUCER_NOT_OK, kafka_fail_count,
             producer>>

\* the record kept of one trigger call (or direct handler call)
Call(by, m0, trig, kw, q0, W) ==
    [ by |-> by, id |-> m0.intp_id, trigger |-> trig, kw |-> kw,
      pre |-> m0.state, post |-> W.m.state, exc |-> W.exc,
      hooks |-> W.hooks, fired |-> W.fired, m0 |-> m0, m1 |-> W.m,
      notes |-> SubSeq(W.queue, Len(q0) + 1, Len(W.queue)) ]

(***************************************************************************)
(* SqliteJobDatabase.  A row holds the pickled machine and a copy of its   *)
(* state; created_at is set by the insert and never written again.         *)
(***************************************************************************)
\* pickle.dumps(job): the attributes of the machine and of its handler,
\* in the order of their assignment
pickle_dumps(job) ==
    << job.intp_id, job.dry_run, job.helm_installed,
       job.work_bucket_existed_on_create, job.results_bucket_existed_on_create,
       job.trace_name, job.trace_exit, job.state >>

\* an unpickling that builds the handler anew, as the constructor does
pickle_loads_new_handler(blob) ==
    [ NewJob(blob[1], blob[2]) EXCEPT !.state = blob[8],
                                      !.trace_name = blob[6],
                                      !.trace_exit = blob[7] ]

\* pickle.loads(blob): the machine with the attributes of the blob
pickle_loads(blob) ==
    [ intp_id |-> blob[1], dry_run |-> blob[2], state |-> blob[8],
      helm_installed |-> blob[3],
      work_bucket_existed_on_create |-> blob[4],
      results_bucket_existed_on_create |-> blob[5],
      trace_name |-> blob[6], trace_exit |-> blob[7] ]

Row(job, t) ==
    [ state |-> job.state, job |-> pickle_dumps(job), created_at |-> t ]

\* a table whose id column is no key
insert_ok_no_key(d, job) == TRUE

\* insert_job: the primary key rejects an id that is present
insert_ok(d, job) == job.intp_id \notin DOMAIN d

insert_job(d, job, t) ==
    [ i \in DOMAIN d \cup {job.intp_id} |->
        IF i = job.intp_id THEN Row(job, t) ELSE d[i] ]

\* an update that deletes the row of a job that has ended
update_job_delete_terminal(d, job) ==
    IF job.intp_id \in DOMAIN d
    THEN IF job.state \in Terminal
         THEN [ i \in DOMAIN d \ {job.intp_id} |-> d[i] ]
         ELSE [d EXCEPT ![job.intp_id].job = pickle_dumps(job),
                        ![job.intp_id].state = job.state]
    ELSE d

\* an update that writes the blob and leaves the state column alone
update_job_blob_only(d, job) ==
    IF job.intp_id \in DOMAIN d
    THEN [d EXCEPT ![job.intp_id].job = pickle_dumps(job)]
    ELSE d

\* update_job: UPDATE ... SET job, state WHERE id: no row, no change
update_job(d, job) ==
    IF job.intp_id \in DOMAIN d
    THEN [d EXCEPT ![job.intp_id].job = pickle_dumps(job),
                   ![job.intp_id].state = job.state]
    ELSE d

\* load_job: the unpickled machine, or None when there is no row
load_job(d, id) == IF id \in DOMAIN d THEN pickle_loads(d[id].job) ELSE None

\* a query that leaves out the Failed rows only
get_active_jobs_not_failed(d) == { i \in DOMAIN d : d[i].state # FAILED }

\* get_active_jobs: state NOT IN ('Failed', 'Succeeded')
get_active_jobs(d) == { i \in DOMAIN d : d[i].state \notin {FAILED, SUCCEEDED} }

\* the rows timeout_jobs selects
timeout_jobs_selected(d, t) ==
    { i \in DOMAIN d : /\ d[i].state \notin {FAILED, DEPLOYED, SUCCEEDED}
                       /\ d[i].created_at <= t - TIMEOUT_SECONDS }

\* a query for the long-running jobs that names the wrong state
timeout_deployed_jobs_selected_created(d, t) ==
    { i \in DOMAIN d : /\ d[i].state \in {CREATED}
                       /\ d[i].created_at <= t - DEPLOYED_TIMEOUT_SECONDS }

\* the rows timeout_deployed_jobs selects
timeout_deployed_jobs_selected(d, t) ==
    { i \in DOMAIN d : /\ d[i].state \in {DEPLOYED}
                       /\ d[i].created_at <= t - DEPLOYED_TIMEOUT_SECONDS }

(***************************************************************************)
(* The platform API (SeqeraLog).  status "absent" stands for a response    *)
(* with no workflow or several, "HTTPError" for a request that fails.      *)
(***************************************************************************)
ErrorReport == "Error executing process > 'X'"

\* the errorReport of a response as the platform sends it, line by line;
\* the empty sequence stands for a response without one (null)
RawErrorReport == << ErrorReport, "Caused by:", "  Process terminated" >>

\* SeqeraLog.trim_error_message: message.strip().split("\n")[0]
trim_error_message(message) ==
    IF message = << >> THEN None ELSE Head(message)

\* SeqeraLog.from_response for a response with one workflow: the fields
\* kept, the error report validated; raw is the report as it was sent
SeqeraLog(status, exitStatus, raw) ==
    [ status |-> status, exitStatus |-> exitStatus,
      errorReport |-> trim_error_message(raw), raw |-> raw ]

SeqeraLogs ==
    { SeqeraLog(st, NoExit, << >>) :
        st \in {"absent", "HTTPError", "SUBMITTED", "RUNNING", "SUCCEEDED",
                "UNKNOWN"} }
    \cup { SeqeraLog("FAILED", 12, RawErrorReport) }

\* SeqeraLog.get_job_state
get_job_state(status) ==
    CASE status = "SUCCEEDED" -> SUCCEEDED
      [] status \in {"FAILED", "UNKNOWN"} -> FAILED
      [] status = "RUNNING" -> DEPLOYED
      [] OTHER -> None

\* what a sweep carries from one job to the next
Sweep(d, b, r, q, t) ==
    [ db |-> d, buckets |-> b, releases |-> r, queue |-> q, now |-> t,
      calls |-> << >>, raised |-> FALSE, visited |-> << >> ]

\* the result of one trigger call folded into the sweep; the row is
\* updated only when the trigger call returned
AfterCall(S, by, m0, trig, kw, W) ==
    [ db |-> IF W.exc = "none" THEN update_job(S.db, W.m) ELSE S.db,
      buckets |-> W.buckets, releases |-> W.releases, queue |-> W.queue,
      now |-> S.now,
      calls |-> Append(S.calls, Call(by, m0, trig, kw, S.queue, W)),
      raised |-> W.exc # "none", visited |-> S.visited ]

QueueKw == [ queue |-> TRUE, job_model |-> FALSE ]

(***************************************************************************)
(* check_job_state, the body of the loop for one job: jobs is the list     *)
(* loaded at the start of the pass, e[id] the platform's answer and the    *)
(* outcomes of the external calls for that job.                            *)
(***************************************************************************)
check_one(S, jobs, id, e) ==
    LET job == jobs[id]
        job_state == get_job_state(e.log.status)
    IN
    IF e.log.status = "HTTPError" THEN [S EXCEPT !.raised = TRUE]
    ELSE IF job_state = None \/ job_state = job.state THEN S
    ELSE IF job_state = FAILED /\ e.log2.status = "absent"
    THEN [S EXCEPT !.raised = TRUE]
    ELSE LET m0 == IF job_state = FAILED
                   THEN [job EXCEPT !.trace_exit = e.log2.exitStatus,
                                    !.trace_name = e.log2.errorReport]
                   ELSE job
             trig == state_trigger_map(job_state)
             W == Fire(World(m0, S.buckets, S.releases, S.queue, S.now),
                       trig, QueueKw, e.env)
         IN AfterCall(S, "check_job_state", m0, trig, QueueKw, W)

\* timeout_jobs / timeout_deployed_jobs, the body of the loop for one job
timeout_one(S, jobs, id, e, by) ==
    LET m0 == jobs[id]
        W == Fire(World(m0, S.buckets, S.releases, S.queue, S.now),
                  "error", QueueKw, e.env)
    IN AfterCall(S, by, m0, "error", QueueKw, W)

\* a loop over the jobs in the order of the result set; an exception
\* leaves the loop
RECURSIVE RunSweep(_, _, _, _, _)
RunSweep(by, order, S, jobs, e) ==
    IF order = << >> \/ S.raised THEN S
    ELSE LET id == Head(order)
             S0 == [S EXCEPT !.visited = Append(@, id)]
             S1 == IF by = "check_job_state"
                   THEN check_one(S0, jobs, id, e[id])
                   ELSE timeout_one(S0, jobs, id, e[id], by)
         IN RunSweep(by, Tail(order), S1, jobs, e)

\* the orders in which a result set without ORDER BY may come
Orders(ids) ==
    { o \in [1..Cardinality(ids) -> ids] :
        \A i, j \in 1..Cardinality(ids) : i # j => o[i] # o[j] }

\* the outcomes of the external calls of destroy_resources: the uninstall
\* fails, or a bucket request fails, or all succeed
DestroyEnvs ==
    { env \in [ storage : StorageOutcomes, helm_install : {"ok"},
                helm_uninstall_ok : BOOLEAN ] :
        ~env.helm_uninstall_ok => env.storage = "ok" }

NoLog == SeqeraLog("absent", NoExit, << >>)

\* the inputs of a timeout sweep for one job: the external outcomes
TimeoutEnvs == [ log : {NoLog}, log2 : {NoLog}, env : DestroyEnvs ]

\* the inputs of a poll for one job: the platform's answer (log), its
\* answer to the second request that is made when the first maps to Failed
\* (log2: the same log again, or no workflow), and the external outcomes
\* when the answer leads to destroy_resources
PollEnvs ==
    { e \in [ log : SeqeraLogs, log2 : SeqeraLogs, env : DestroyEnvs ] :
        /\ e.log.status \notin {"SUCCEEDED", "FAILED", "UNKNOWN"}
              => e.env = EnvOK
        /\ e.log2 = e.log
              \/ (e.log.status \in {"FAILED", "UNKNOWN"} /\ e.log2 = NoLog) }

\* no job has been polled
NotPolled == [ i \in {} |-> NoLog ]

\* a scheduled task of the main loop: the sweep S is the whole task; an
\* exception that leaves it leaves main() as well
Scheduled(S) ==
    /\ db' = S.db
    /\ buckets' = S.buckets
    /\ releases' = S.releases
    /\ queue' = S.queue
    /\ last' = S.calls
    /\ main' = IF S.raised THEN "crashed" ELSE main
    /\ UNCHANGED <<now, consumed, objs, made>>
    /\ UNCHANGED <<rows, consumerVars, wireVars, gcsVars, earlier, busVars, pending>>

check_job_state ==
    /\ main = "running"
    /\ LET ids == get_active_jobs(db)
           jobs == [ i \in ids |-> load_job(db, i) ]
       IN \E order \in Orders(ids) : \E e \in [ids -> PollEnvs] :
            Scheduled(RunSweep("check_job_state", order,
                               Sweep(db, buckets, releases, queue, now), jobs, e))
    /\ UNCHANGED polled

\* check_job_state, with a record of what the platform answered for each
\* job of the pass (job.get_job_state and, for Failed, job.get_seqera_log)
check_job_state_observed ==
    /\ main = "running"
    /\ LET ids == get_active_jobs(db)
           jobs == [ i \in ids |-> load_job(db, i) ]
       IN \E order \in Orders(ids) : \E e \in [ids -> PollEnvs] :
            LET S == RunSweep("check_job_state", order,
                              Sweep(db, buckets, releases, queue, now), jobs, e)
            IN /\ Scheduled(S)
               /\ polled' = [ i \in { S.visited[k] : k \in 1..Len(S.visited) }
                                |-> e[i].log ]

(***************************************************************************)
(* check_job_state as the consumer thread sees it, one job of the loop in  *)
(* two steps: job.trigger(trigger, queue=queue) returns or raises, and     *)
(* then db.update_job(job) writes the job back.  Between the two the cloud *)
(* and the queue are those after the trigger and the row is the one before *)
(* it.                                                                     *)
(***************************************************************************)
check_job_state_trigger ==
    /\ main = "running"
    /\ pending = {}
    /\ \E id \in get_active_jobs(db) : \E e \in PollEnvs :
         LET jobs == [ i \in {id} |-> load_job(db, i) ]
             S == check_one(Sweep(db, buckets, releases, queue, now),
                            jobs, id, e)
         IN /\ buckets' = S.buckets
            /\ releases' = S.releases
            /\ queue' = S.queue
            /\ last' = S.calls
            /\ main' = IF S.raised THEN "crashed" ELSE main
            /\ pending' = IF S.raised \/ S.calls = << >> THEN {}
                          ELSE { S.calls[1].m1 }
    /\ UNCHANGED <<db, rows, now, consumed, objs, made, consumerVars,
                   wireVars, gcsVars, earlier, busVars, polled>>

check_job_state_update ==
    /\ main = "running"
    /\ pending # {}
    /\ db' = update_job(db, CHOOSE job \in pending : TRUE)
    /\ pending' = {}
    /\ last' = << >>
    /\ UNCHANGED <<rows, buckets, releases, queue, now, consumed, main, objs,
                   made, consumerVars, wireVars, gcsVars, earlier, busVars, polled>>

timeout_jobs ==
    /\ main = "running"
    /\ LET ids == timeout_jobs_selected(db, now)
           jobs == [ i \in ids |-> load_job(db, i) ]
       IN \E order \in Orders(ids) : \E e \in [ids -> TimeoutEnvs] :
            Scheduled(RunSweep("timeout_jobs", order,
                               Sweep(db, buckets, releases, queue, now), jobs, e))
    /\ UNCHANGED polled

timeout_deployed_jobs ==
    /\ main = "running"
    /\ LET ids == timeout_deployed_jobs_selected(db, now)
           jobs == [ i \in ids |-> load_job(db, i) ]
       IN \E order \in Orders(ids) : \E e \in [ids -> TimeoutEnvs] :
            Scheduled(RunSweep("timeout_deployed_jobs", order,
                               Sweep(db, buckets, releases, queue, now), jobs, e))
    /\ UNCHANGED polled

(***************************************************************************)
(* The launch topic: the payload of a message is not UTF-8, or is not      *)
(* JSON, or fails the validation of JobRequest, or is a valid request for  *)
(* an id.                                                                  *)
(***************************************************************************)
Messages ==
    [ kind : {"badutf8", "badjson", "invalid"}, id : {None} ]
    \cup [ kind : {"valid"}, id : Ids ]

\* the consumer has no message in hand
NoMessage == [ kind |-> "none", id |-> None, outcome |-> "none" ]

CreateKw == [ queue |-> FALSE, job_model |-> TRUE ]

\* the outcomes of the external calls of create_resources
CreateEnvs ==
    { env \in [ storage : StorageOutcomes, helm_install : HelmInstallOutcomes,
                helm_uninstall_ok : {TRUE} ] :
        env.storage # "ok" => env.helm_install = "ok" }

\* the table after an INSERT that went through
inserted_rows(r, job) == [r EXCEPT ![job.intp_id] = @ + 1]

(***************************************************************************)
(* process_message: validate, construct the job, trigger create with the   *)
(* request as job_model (and no queue), insert the job.  Every exception   *)
(* is caught and logged.                                                   *)
(***************************************************************************)
process_message(msg, env) ==
    IF msg.kind # "valid"
    THEN /\ UNCHANGED <<db, rows, buckets, releases, queue>>
         /\ last' = << >>
    ELSE LET m0 == NewJob(msg.id, FALSE)
             W == Fire(World(m0, buckets, releases, queue, now),
                       "create", CreateKw, env)
             stored == W.exc = "none" /\ insert_ok(db, W.m)
         IN /\ buckets' = W.buckets
            /\ releases' = W.releases
            /\ queue' = W.queue
            /\ last' = << Call("process_message", m0, "create", CreateKw,
                               queue, W) >>
            /\ db' = IF stored THEN insert_job(db, W.m, now) ELSE db
            /\ rows' = IF stored THEN inserted_rows(rows, W.m) ELSE rows

\* a consumer that never waits
backpressure_never(n) == FALSE

\* a loop that waits only above the cap
backpressure_above_cap(n) == n > MAX_CONCURRENT_JOBS

\* the condition of the while loop of kafka_consumer
backpressure(n) == n >= MAX_CONCURRENT_JOBS

\* a commit placed after the try block instead of in its finally clause
commits_offset_unless_raised(outcome) == outcome # "UnicodeDecodeError"

\* finally: consumer.commit(), whatever the try block did
commits_offset(outcome) == TRUE

\* the exceptions of the try block that kafka_consumer does not catch
Uncaught == {"UnicodeDecodeError"}

(***************************************************************************)
(* kafka_consumer, one message with no other thread running in between:    *)
(* wait until the number of active jobs is below the cap, decode and       *)
(* process the message, commit.  A payload that json.loads rejects is      *)
(* skipped; one that is not UTF-8 raises UnicodeDecodeError, which nothing *)
(* catches: the thread ends after the commit.                              *)
(***************************************************************************)
kafka_consumer ==
    /\ main = "running"
    /\ pc = "poll"
    /\ consumed < MaxMessages
    /\ ~backpressure(Cardinality(get_active_jobs(db)))
    /\ \E msg \in Messages : \E env \in CreateEnvs :
         /\ process_message(msg, env)
         /\ pc' = IF msg.kind = "badutf8" THEN "dead" ELSE "poll"
    /\ consumed' = consumed + 1
    /\ commits' = commits + 1
    /\ UNCHANGED <<now, main, objs, made, cur, held, seen, wireVars, gcsVars, earlier, busVars, pending, polled>>

(***************************************************************************)
(* kafka_consumer as a thread, step by step.  pc is "poll" (blocked in the *)
(* iterator), "wait" (in the while loop), "process" (about to decode),     *)
(* "create" (inside job.trigger("create")), "insert" (about to insert),    *)
(* "commit" (in the finally clause) or "dead" (the thread has ended).      *)
(***************************************************************************)
\* for message in consumer
consumer_poll ==
    /\ main = "running"
    /\ pc = "poll"
    /\ consumed < MaxMessages
    /\ \E msg \in Messages :
         cur' = [ kind |-> msg.kind, id |-> msg.id, outcome |-> "none" ]
    /\ consumed' = consumed + 1
    /\ pc' = "wait"
    /\ held' = {}
    /\ last' = << >>
    /\ UNCHANGED <<db, rows, buckets, releases, queue, now, main, objs, made,
                   seen, commits, wireVars, gcsVars, earlier, busVars, pending, polled>>

\* while len(db.get_active_jobs()) >= MAX_CONCURRENT_JOBS: time.sleep(1)
consumer_backpressure ==
    /\ main = "running"
    /\ pc = "wait"
    /\ seen' = Cardinality(get_active_jobs(db))
    /\ pc' = IF backpressure(seen') THEN "wait" ELSE "process"
    /\ last' = << >>
    /\ UNCHANGED <<db, rows, buckets, releases, queue, now, consumed, main,
                   objs, made, cur, held, commits, wireVars, gcsVars, earlier, busVars, pending, polled>>

\* json.loads(message.value.decode("utf-8")), then process_message up to
\* the call of job.trigger("create")
consumer_process ==
    /\ main = "running"
    /\ pc = "process"
    /\ CASE cur.kind = "badutf8" ->
              /\ cur' = [cur EXCEPT !.outcome = "UnicodeDecodeError"]
              /\ pc' = "commit" /\ held' = held
         [] cur.kind = "badjson" ->
              /\ cur' = [cur EXCEPT !.outcome = "JSONDecodeError"]
              /\ pc' = "commit" /\ held' = held
         [] cur.kind = "invalid" ->
              /\ cur' = [cur EXCEPT !.outcome = "ValidationError"]
              /\ pc' = "commit" /\ held' = held
         [] cur.kind = "valid" ->
              /\ cur' = cur
              /\ pc' = "create" /\ held' = { NewJob(cur.id, FALSE) }
    /\ last' = << >>
    /\ UNCHANGED <<db, rows, buckets, releases, queue, now, consumed, main,
                   objs, made, seen, commits, wireVars, gcsVars, earlier, busVars, pending, polled>>

\* job.trigger("create", job_model=job_message) returns or raises
consumer_create ==
    /\ main = "running"
    /\ pc = "create"
    /\ \E env \in CreateEnvs :
         LET m0 == CHOOSE m \in held : TRUE
             W == Fire(World(m0, buckets, releases, queue, now),
                       "create", CreateKw, env)
         IN /\ buckets' = W.buckets
            /\ releases' = W.releases
            /\ queue' = W.queue
            /\ last' = << Call("process_message", m0, "create", CreateKw,
                               queue, W) >>
            /\ held' = { W.m }
            /\ cur' = IF W.exc = "none" THEN cur
                      ELSE [cur EXCEPT !.outcome = W.exc]
            /\ pc' = IF W.exc = "none" THEN "insert" ELSE "commit"
    /\ UNCHANGED <<db, rows, now, consumed, main, objs, made, seen, commits,
                   wireVars, gcsVars, earlier, busVars, pending, polled>>

\* db.insert_job(job)
consumer_insert ==
    /\ main = "running"
    /\ pc = "insert"
    /\ LET job == CHOOSE m \in held : TRUE IN
         IF insert_ok(db, job)
         THEN /\ db' = insert_job(db, job, now)
              /\ rows' = inserted_rows(rows, job)
              /\ cur' = [cur EXCEPT !.outcome = "accepted"]
         ELSE /\ UNCHANGED <<db, rows>>
              /\ cur' = [cur EXCEPT !.outcome = "IntegrityError"]
    /\ pc' = "commit"
    /\ last' = << >>
    /\ UNCHANGED <<buckets, releases, queue, now, consumed, main, objs, made,
                   held, seen, commits, wireVars, gcsVars, earlier, busVars, pending, polled>>

\* finally: consumer.commit(); an exception that was not caught then
\* leaves the loop and the thread
consumer_commit ==
    /\ main = "running"
    /\ pc = "commit"
    /\ commits' = IF commits_offset(cur.outcome) THEN commits + 1 ELSE commits
    /\ pc' = IF cur.outcome \in Uncaught THEN "dead" ELSE "poll"
    /\ last' = << >>
    /\ UNCHANGED <<db, rows, buckets, releases, queue, now, consumed, main,
                   objs, made, cur, held, seen, wireVars, gcsVars, earlier, busVars, pending, polled>>

\* kafka_producer: take the oldest message off the queue and send it
\* serialised (msg.model_dump_json())
kafka_producer ==
    /\ main = "running"
    /\ producer = "running"
    /\ queue # << >>
    /\ queue' = Tail(queue)
    /\ arg' = { Head(queue) }
    /\ sent' = { serialize_model(Head(queue)) }
    /\ last' = << >>
    /\ UNCHANGED <<db, buckets, releases, now, consumed, main, objs, made>>
    /\ UNCHANGED <<rows, consumerVars, busVars, gcsVars, earlier, pending, polled>>

(***************************************************************************)
(* The bus errors.  consumer and producer are kafka-python objects; every  *)
(* call on them can raise a subclass of errors.KafkaError.                 *)
(***************************************************************************)
\* an except clause that logs the error and leaves the flag alone
consumer_kafka_error_logs_only(flag) == flag

\* kafka_consumer, except errors.KafkaError: KAFKA_CONSUMER_NOT_OK.set()
consumer_kafka_error_sets(flag) == TRUE

\* KafkaConsumer(...) or the iterator (pc = "poll") or consumer.commit()
\* (pc = "commit") raises a KafkaError: the outer except clause logs it,
\* sets the flag, and the function returns
consumer_kafka_error ==
    /\ main = "running"
    /\ pc \in {"poll", "commit"}
    /\ cur' = [cur EXCEPT !.outcome = "KafkaError"]
    /\ KAFKA_CONSUMER_NOT_OK' = consumer_kafka_error_sets(KAFKA_CONSUMER_NOT_OK)
    /\ pc' = "dead"
    /\ last' = << >>
    /\ UNCHANGED <<db, rows, buckets, releases, queue, now, consumed, main,
                   objs, made, held, seen, commits, wireVars, gcsVars, earlier, pending, polled,
                   KAFKA_PRODUCER_NOT_OK, kafka_fail_count, producer>>

\* kafka_producer, producer.send(...) raises a KafkaError: the call is in
\* the else clause of the try statement, whose except clauses do not cover
\* it; the message was taken off the queue, the thread ends
kafka_producer_send_error ==
    /\ main = "running"
    /\ producer = "running"
    /\ queue # << >>
    /\ queue' = Tail(queue)
    /\ producer' = "KafkaError"
    /\ last' = << >>
    /\ UNCHANGED <<db, rows, buckets, releases, now, consumed, main, objs,
                   made, consumerVars, wireVars, gcsVars, earlier, pending, polled,
                   KAFKA_CONSUMER_NOT_OK, KAFKA_PRODUCER_NOT_OK,
                   kafka_fail_count>>

\* the fields of config.Settings that are numbers of the model (the other
\* fields are paths, names and tokens)
settings ==
    [ TIMEOUT_SECONDS |-> TIMEOUT_SECONDS,
      DEPLOYED_TIMEOUT_SECONDS |-> DEPLOYED_TIMEOUT_SECONDS,
      MAX_CONCURRENT_JOBS |-> MAX_CONCURRENT_JOBS ]

\* the number of flags that are set
FlagsSet(consumer_flag, producer_flag) ==
    (IF consumer_flag THEN 1 ELSE 0) + (IF producer_flag THEN 1 ELSE 0)

(***************************************************************************)
(* main, the body of the while loop up to schedule.run_pending(): a worker *)
(* whose flag is set is started again (start_*_thread clears the flag) and *)
(* counted; then kafka_fail_count is compared with                         *)
(* settings.MAX_KAFKA_FAILS.  Reading a field that Settings does not have  *)
(* raises AttributeError, which ends the process as any exception of the   *)
(* main thread does.                                                       *)
(***************************************************************************)
main_loop ==
    /\ main = "running"
    /\ kafka_fail_count' =
          kafka_fail_count + FlagsSet(KAFKA_CONSUMER_NOT_OK, KAFKA_PRODUCER_NOT_OK)
    /\ IF KAFKA_CONSUMER_NOT_OK
       THEN pc' = "poll" /\ cur' = NoMessage /\ held' = {}
       ELSE UNCHANGED <<pc, cur, held>>
    /\ producer' = IF KAFKA_PRODUCER_NOT_OK THEN "running" ELSE producer
    /\ KAFKA_CONSUMER_NOT_OK' = FALSE
    /\ KAFKA_PRODUCER_NOT_OK' = FALSE
    /\ main' = IF "MAX_KAFKA_FAILS" \notin DOMAIN settings
               THEN "AttributeError"
               ELSE IF kafka_fail_count' > settings["MAX_KAFKA_FAILS"]
               THEN "Exception"
               ELSE "running"
    /\ last' = << >>
    /\ UNCHANGED <<db, rows, buckets, releases, queue, now, consumed, objs,
                   made, seen, commits, wireVars, gcsVars, earlier, pending, polled>>

(***************************************************************************)
(* bucket_clean_up.  A bucket name is the sequence of its parts, so that   *)
(* startswith is a comparison of sequences; time_created is on the clock   *)
(* of the model, on which fourteen days are TWO_WEEKS ticks.               *)
(***************************************************************************)
TWO_WEEKS == 1

\* bucket_prefix = f"{settings.NAMESPACE.value}-intp"
bucket_prefix == << "intervene-dev", "-intp" >>

\* the names a bucket of the project can have, in the order of the
\* listing: the buckets of two jobs of this namespace, one that is not a
\* job's, and one of a job of another namespace
ProjectBucketList ==
    << << "intervene-dev", "-intp", "a", "-results" >>,
       << "intervene-dev", "-intp", "a", "-work" >>,
       << "intervene-dev", "-intp", "b", "-work" >>,
       << "intervene-dev", "-logs" >>,
       << "intervene-test", "-intp", "a", "-work" >> >>

ProjectBucketNames ==
    { ProjectBucketList[k] : k \in 1..Len(ProjectBucketList) }

\* str.startswith
startswith(name, prefix) ==
    /\ Len(prefix) <= Len(name)
    /\ SubSeq(name, 1, Len(prefix)) = prefix

\* what list_buckets() can return: each name at most once
Listings ==
    { l \in SUBSET [ name : ProjectBucketNames, time_created : 0..MaxTime ] :
        \A b1, b2 \in l : b1.name = b2.name => b1 = b2 }

\* the list comprehension of bucket_clean_up
expired_buckets(listing, prefix, t) ==
    { b \in listing :
        startswith(b.name, prefix) /\ b.time_created < t - TWO_WEEKS }

\* the position of a bucket in the listing (list_buckets orders by name)
ListRank(name) ==
    CHOOSE k \in 1..Len(ProjectBucketList) : ProjectBucketList[k] = name

\* a loop inside one try statement: the first delete that raises ends it
delete_called_until_raise(selected, failing) ==
    { b \in selected : \A f \in failing : ListRank(b.name) <= ListRank(f.name) }

\* for bucket in buckets: try: bucket.delete(force=True) except Exception
delete_called(selected, failing) == selected

\* one run: storage.Client and list_buckets() answer or raise (nothing
\* catches that); each selected bucket is deleted unless its delete raises
bucket_clean_up ==
    /\ main = "running"
    /\ \E listed \in BOOLEAN :
         IF ~listed
         THEN /\ main' = "crashed"
              /\ UNCHANGED <<project, cleanup>>
         ELSE \E failing \in SUBSET expired_buckets(project, bucket_prefix, now) :
                LET selected == expired_buckets(project, bucket_prefix, now)
                    called == delete_called(selected, failing)
                IN /\ project' = project \ (called \ failing)
                   /\ cleanup' = { [ at |-> now, listing |-> project,
                                     called |-> called, failing |-> failing ] }
                   /\ main' = main
    /\ last' = << >>
    /\ UNCHANGED <<db, rows, buckets, releases, queue, now, consumed, objs,
                   made, consumerVars, wireVars, busVars, pending, polled,
                   earlier>>

(***************************************************************************)
(* The daemon is started again after its process has ended: main() opens   *)
(* the same database file, makes a new SimpleQueue, clears nothing in the  *)
(* cloud project and starts both threads.                                  *)
(***************************************************************************)
restart ==
    /\ main # "running"
    /\ Len(earlier) + Len(queue) <= MaxQueue
    /\ main' = "running"
    /\ earlier' = earlier \o queue
    /\ queue' = << >>
    /\ pc' = "poll" /\ cur' = NoMessage /\ held' = {} /\ seen' = 0
    /\ KAFKA_CONSUMER_NOT_OK' = FALSE
    /\ KAFKA_PRODUCER_NOT_OK' = FALSE
    /\ kafka_fail_count' = 0
    /\ producer' = "running"
    /\ pending' = {}
    /\ polled' = NotPolled
    /\ last' = << >>
    /\ UNCHANGED <<db, rows, buckets, releases, now, consumed, objs, made,
                   commits, wireVars, gcsVars>>

\* time passes
Tick ==
    /\ now < MaxTime
    /\ now' = now + 1
    /\ last' = << >>
    /\ UNCHANGED <<db, buckets, releases, queue, consumed, main, objs, made>>
    /\ UNCHANGED <<rows, consumerVars, wireVars, gcsVars, earlier, busVars, pending, polled>>

\* the external outcomes that matter to a trigger: only create provisions
TriggerEnvs(trig) == IF trig = "create" THEN CreateEnvs ELSE DestroyEnvs

\* the keywords that matter to a trigger: create_resources reads job_model,
\* notify reads queue
TriggerKwargs(trig) ==
    IF trig = "create" THEN [ queue : {FALSE}, job_model : BOOLEAN ]
    ELSE [ queue : BOOLEAN, job_model : {FALSE} ]

(***************************************************************************)
(* A client of the library, as in the doctests of pgsjob.py and db.py: it  *)
(* constructs a job (holding one job at a time), fires triggers on it with *)
(* the keywords it likes, calls its handler, and fires triggers on stored  *)
(* jobs (load_job, trigger, update_job).                                   *)
(***************************************************************************)
ClientNew ==
    /\ made < MaxClientJobs
    /\ \E id \in Ids : \E dry \in BOOLEAN :
         objs' = [ i \in {id} |-> NewJob(id, dry) ]
    /\ made' = made + 1
    /\ last' = << >>
    /\ UNCHANGED <<db, buckets, releases, queue, now, consumed, main>>
    /\ UNCHANGED <<rows, consumerVars, wireVars, gcsVars, earlier, busVars, pending, polled>>

ClientTrigger ==
    /\ Len(queue) < MaxQueue
    /\ \E id \in DOMAIN objs : \E trig \in Triggers :
         \E kw \in TriggerKwargs(trig) :
         \E env \in TriggerEnvs(trig) :
           LET W == Fire(World(objs[id], buckets, releases, queue, now),
                         trig, kw, env)
           IN /\ objs' = [objs EXCEPT ![id] = W.m]
              /\ buckets' = W.buckets
              /\ releases' = W.releases
              /\ queue' = W.queue
              /\ last' = << Call("client", objs[id], trig, kw, queue, W) >>
    /\ UNCHANGED <<db, now, consumed, main, made>>
    /\ UNCHANGED <<rows, consumerVars, wireVars, gcsVars, earlier, busVars, pending, polled>>

\* job.handler.create_resources(job_model) called by hand
ClientCreateResources ==
    \E id \in DOMAIN objs : \E env \in CreateEnvs :
      LET W0 == World(objs[id], buckets, releases, queue, now)
          W == Logged(W0, handler_create_resources(W0, env),
                      "create_resources", "handler")
      IN /\ objs' = [objs EXCEPT ![id] = W.m]
         /\ buckets' = W.buckets
         /\ releases' = W.releases
         /\ last' = << Call("client", objs[id], "handler", NoKwargs, queue, W) >>
         /\ UNCHANGED <<db, queue, now, consumed, main, made>>
         /\ UNCHANGED <<rows, consumerVars, wireVars, gcsVars, earlier, busVars, pending, polled>>

\* job.handler.destroy_resources(state) called by hand
ClientDestroyResources ==
    \E id \in DOMAIN objs : \E st \in Terminal : \E env \in DestroyEnvs :
      LET W0 == World(objs[id], buckets, releases, queue, now)
          W == Logged(W0, handler_destroy_resources(W0, st, env),
                      "destroy_resources", "handler")
      IN /\ objs' = [objs EXCEPT ![id] = W.m]
         /\ buckets' = W.buckets
         /\ releases' = W.releases
         /\ last' = << [ Call("client", objs[id], "handler", NoKwargs, queue, W)
                         EXCEPT !.post = st ] >>
         /\ UNCHANGED <<db, queue, now, consumed, main, made>>
         /\ UNCHANGED <<rows, consumerVars, wireVars, gcsVars, earlier, busVars, pending, polled>>

\* job = db.load_job(id); job.trigger(trig, queue=q); db.update_job(job)
ClientStoredTrigger ==
    /\ Len(queue) < MaxQueue
    /\ \E id \in DOMAIN db : \E trig \in Triggers :
         \E env \in TriggerEnvs(trig) :
         LET m0 == load_job(db, id)
             S == AfterCall(Sweep(db, buckets, releases, queue, now), "client",
                            m0, trig, QueueKw,
                            Fire(World(m0, buckets, releases, queue, now),
                                 trig, QueueKw, env))
         IN /\ db' = S.db
            /\ buckets' = S.buckets
            /\ releases' = S.releases
            /\ queue' = S.queue
            /\ last' = S.calls
    /\ UNCHANGED <<now, consumed, main, objs, made>>
    /\ UNCHANGED <<rows, consumerVars, wireVars, gcsVars, earlier, busVars, pending, polled>>

\* the record kept of one call of the store made by hand
StoreCall(op, job, exc) ==
    [ by |-> "client", id |-> job.intp_id, trigger |-> op, kw |-> NoKwargs,
      pre |-> job.state, post |-> job.state, exc |-> exc,
      hooks |-> << >>, fired |-> << >>, m0 |-> job, m1 |-> job,
      notes |-> << >> ]

\* db.insert_job(job) called by hand: sqlite3.IntegrityError for an id
\* that is present
ClientInsert ==
    /\ \E id \in DOMAIN objs :
         LET job == objs[id] IN
         IF insert_ok(db, job)
         THEN /\ db' = insert_job(db, job, now)
              /\ rows' = inserted_rows(rows, job)
              /\ last' = << StoreCall("insert_job", job, "none") >>
         ELSE /\ UNCHANGED <<db, rows>>
              /\ last' = << StoreCall("insert_job", job, "IntegrityError") >>
    /\ UNCHANGED <<buckets, releases, queue, now, consumed, main, objs, made>>
    /\ UNCHANGED <<consumerVars, wireVars, gcsVars, earlier, busVars, pending, polled>>

\* db.update_job(job) called by hand
ClientUpdate ==
    /\ \E id \in DOMAIN objs :
         /\ db' = update_job(db, objs[id])
         /\ last' = << StoreCall("update_job", objs[id], "none") >>
    /\ UNCHANGED <<buckets, releases, queue, now, consumed, main, objs, made>>
    /\ UNCHANGED <<rows, consumerVars, wireVars, gcsVars, earlier, busVars, pending, polled>>

\* job = db.load_job(id) called by hand
ClientLoad ==
    /\ \E id \in DOMAIN db :
         /\ objs' = [ i \in {id} |-> load_job(db, id) ]
         /\ last' = << StoreCall("load_job", load_job(db, id), "none") >>
    /\ UNCHANGED <<db, buckets, releases, queue, now, consumed, main, made>>
    /\ UNCHANGED <<rows, consumerVars, wireVars, gcsVars, earlier, busVars, pending, polled>>

\* job.trace_exit = ...; job.trace_name = ... as check_job_state sets them
ClientSetTrace ==
    /\ \E id \in DOMAIN objs :
         /\ objs[id].trace_name = None
         /\ objs' = [objs EXCEPT ![id].trace_exit = 12,
                                 ![id].trace_name = ErrorReport]
    /\ last' = << >>
    /\ UNCHANGED <<db, buckets, releases, queue, now, consumed, main, made>>
    /\ UNCHANGED <<rows, consumerVars, wireVars, gcsVars, earlier, busVars, pending, polled>>

\* the messages a caller may construct: any run name, time and event, with
\* or without trace values
StatusMessages ==
    [ run_name : Ids, utc_time : 0..MaxTime, event : States,
      trace_name : {None, ErrorReport}, trace_exit : {NoExit, 12} ]

\* BackendStatusMessage(**d).model_dump_json() called by hand
ClientDump ==
    /\ \E msg \in StatusMessages :
         /\ arg' = { msg }
         /\ sent' = { serialize_model(msg) }
    /\ last' = << >>
    /\ UNCHANGED <<db, buckets, releases, queue, now, consumed, main, objs,
                   made, rows, consumerVars, busVars, gcsVars, earlier, pending, polled>>

\* the buckets that may exist before the daemon starts
PreExisting == { work_bucket("INTPB"), results_bucket("INTPB") }

(***************************************************************************)
(* Initial state: an empty table, an empty queue, some buckets that other  *)
(* parties created.                                                        *)
(***************************************************************************)
Init ==
    /\ db = [ i \in {} |-> NewJob(i, FALSE) ]
    /\ buckets \in SUBSET PreExisting
    /\ releases = {}
    /\ queue = << >>
    /\ now = 0
    /\ consumed = 0
    /\ main = "running"
    /\ objs = [ i \in {} |-> NewJob(i, FALSE) ]
    /\ made = 0
    /\ last = << >>
    /\ rows = [ i \in Ids |-> 0 ]
    /\ pc = "poll"
    /\ cur = NoMessage
    /\ held = {}
    /\ seen = 0
    /\ commits = 0
    /\ arg = {}
    /\ sent = {}
    /\ KAFKA_CONSUMER_NOT_OK = FALSE
    /\ KAFKA_PRODUCER_NOT_OK = FALSE
    /\ kafka_fail_count = 0
    /\ producer = "running"
    /\ pending = {}
    /\ polled = NotPolled
    /\ project = {}
    /\ cleanup = {}
    /\ earlier = << >>

\* the daemon of main.py
Next ==
    \/ kafka_consumer
    \/ kafka_producer
    \/ check_job_state
    \/ timeout_jobs
    \/ timeout_deployed_jobs
    \/ Tick

Spec == Init /\ [][Next]_vars

\* a client of the library, single-threaded, with no daemon running
NextAPI ==
    \/ ClientNew
    \/ ClientTrigger
    \/ ClientCreateResources
    \/ ClientDestroyResources

SpecAPI == Init /\ [][NextAPI]_vars

\* a client of the library and of the store, as in the doctest of db.py
NextStore ==
    \/ ClientNew
    \/ ClientTrigger
    \/ ClientSetTrace
    \/ ClientInsert
    \/ ClientUpdate
    \/ ClientLoad

SpecStore == Init /\ [][NextStore]_vars

\* a caller of the serialiser, as in the doctest of notifymodels.py
NextNotify == ClientDump

SpecNotify == Init /\ [][NextNotify]_vars

\* the daemon, and triggers fired by hand on the jobs it stored
NextDirect == Next \/ ClientStoredTrigger

SpecDirect == Init /\ [][NextDirect]_vars

\* a job that process_message created and stored
StoredJob(id) ==
    [ NewJob(id, FALSE) EXCEPT !.state = CREATED, !.helm_installed = TRUE ]

\* the sets of jobs that the table may hold when the daemon is started
\* again (the database file outlives the process)
StoredAtStart == { {}, {"INTPB"}, {"INTPA", "INTPB"} }

(***************************************************************************)
(* Initial state of a daemon that is started on the table of an earlier    *)
(* run: the stored jobs are Created, their buckets and releases exist, the *)
(* queue (which is in memory) is empty.                                    *)
(***************************************************************************)
InitThreads ==
    /\ \E ids \in StoredAtStart :
         /\ db = [ i \in ids |-> Row(StoredJob(i), 0) ]
         /\ rows = [ i \in Ids |-> IF i \in ids THEN 1 ELSE 0 ]
         /\ buckets = { work_bucket(i) : i \in ids }
                         \cup { results_bucket(i) : i \in ids }
         /\ releases = { release_name(i) : i \in ids }
    /\ queue = << >>
    /\ now = 0
    /\ consumed = 0
    /\ main = "running"
    /\ objs = [ i \in {} |-> NewJob(i, FALSE) ]
    /\ made = 0
    /\ last = << >>
    /\ pc = "poll"
    /\ cur = NoMessage
    /\ held = {}
    /\ seen = 0
    /\ commits = 0
    /\ arg = {}
    /\ sent = {}
    /\ KAFKA_CONSUMER_NOT_OK = FALSE
    /\ KAFKA_PRODUCER_NOT_OK = FALSE
    /\ kafka_fail_count = 0
    /\ producer = "running"
    /\ pending = {}
    /\ polled = NotPolled
    /\ project = {}
    /\ cleanup = {}
    /\ earlier = << >>

\* the consumer thread interleaved with the main loop, which runs its poll
\* at any moment between two steps of the consumer
NextThreads ==
    \/ consumer_poll
    \/ consumer_backpressure
    \/ consumer_process
    \/ consumer_create
    \/ consumer_insert
    \/ consumer_commit
    \/ check_job_state

SpecThreads == InitThreads /\ [][NextThreads]_vars

\* the consumer thread interleaved with the poll of the main loop, the
\* poll taken one statement at a time
NextRace ==
    \/ consumer_poll
    \/ consumer_backpressure
    \/ consumer_process
    \/ consumer_create
    \/ consumer_insert
    \/ consumer_commit
    \/ check_job_state_trigger
    \/ check_job_state_update

SpecRace == InitThreads /\ [][NextRace]_vars

\* the poll of the main loop alone, on the table of an earlier run
NextPoll == check_job_state_observed

SpecPoll == InitThreads /\ [][NextPoll]_vars

\* the consumer thread with the bus errors and the head of the main loop
NextBus ==
    \/ consumer_poll
    \/ consumer_backpressure
    \/ consumer_process
    \/ consumer_create
    \/ consumer_insert
    \/ consumer_commit
    \/ consumer_kafka_error
    \/ main_loop

SpecBus == InitThreads /\ [][NextBus]_vars

\* the producer thread with the bus errors, the poll that fills the queue
\* and the head of the main loop
NextPublish ==
    \/ check_job_state
    \/ kafka_producer
    \/ kafka_producer_send_error
    \/ main_loop

SpecPublish == InitThreads /\ [][NextPublish]_vars

\* the consumer thread with its bus errors, interleaved with the poll
\* and the head of the main loop, which starts a flagged consumer again
NextSupervised ==
    \/ consumer_poll
    \/ consumer_backpressure
    \/ consumer_process
    \/ consumer_create
    \/ consumer_insert
    \/ consumer_commit
    \/ consumer_kafka_error
    \/ check_job_state
    \/ main_loop

SpecSupervised == InitThreads /\ [][NextSupervised]_vars

\* the poll of the main loop on the table of an earlier run, with the
\* daemon started again whenever its process has ended
NextRestart ==
    \/ check_job_state
    \/ restart

SpecRestart == InitThreads /\ [][NextRestart]_vars

\* the daemon on the table of an earlier run, with a clock that advances,
\* a consumer thread that is not starved, followed up to the end of its
\* while loop, and a main loop that runs each of its tasks again and again
\* (schedule.every(...).do(...))
NextLive ==
    \/ consumer_poll
    \/ consumer_backpressure
    \/ check_job_state
    \/ timeout_jobs
    \/ timeout_deployed_jobs
    \/ Tick

\* the table of the earlier run is at the cap
InitLive == InitThreads /\ Cardinality(DOMAIN db) = MAX_CONCURRENT_JOBS

\* a sweep has rows to fail: the condition under which its run changes the
\* table
timeout_jobs_due ==
    main = "running" /\ timeout_jobs_selected(db, now) # {}

timeout_deployed_jobs_due ==
    main = "running" /\ timeout_deployed_jobs_selected(db, now) # {}

\* schedule.run_pending() in the while loop of main(): a sweep that stays
\* due is run (weak fairness of each sweep, its enabling condition written
\* out); the clock and the consumer thread are not starved
SpecLive ==
    /\ InitLive
    /\ [][NextLive]_vars
    /\ WF_vars(consumer_backpressure)
    /\ WF_vars(Tick)
    /\ ([]<>(~timeout_jobs_due) \/ []<><<timeout_jobs>>_vars)
    /\ ([]<>(~timeout_deployed_jobs_due) \/ []<><<timeout_deployed_jobs>>_vars)

\* bucket_clean_up alone, on any listing of the project
InitCleanUp ==
    /\ db = [ i \in {} |-> Row(StoredJob(i), 0) ]
    /\ rows = [ i \in Ids |-> 0 ]
    /\ buckets = {}
    /\ releases = {}
    /\ queue = << >>
    /\ now = 0
    /\ consumed = 0
    /\ main = "running"
    /\ objs = [ i \in {} |-> NewJob(i, FALSE) ]
    /\ made = 0
    /\ last = << >>
    /\ pc = "poll"
    /\ cur = NoMessage
    /\ held = {}
    /\ seen = 0
    /\ commits = 0
    /\ arg = {}
    /\ sent = {}
    /\ KAFKA_CONSUMER_NOT_OK = FALSE
    /\ KAFKA_PRODUCER_NOT_OK = FALSE
    /\ kafka_fail_count = 0
    /\ producer = "running"
    /\ pending = {}
    /\ polled = NotPolled
    /\ project \in Listings
    /\ cleanup = {}
    /\ earlier = << >>

NextCleanUp ==
    \/ bucket_clean_up
    \/ Tick

SpecCleanUp == InitCleanUp /\ [][NextCleanUp]_vars

\* the daemon with a producer thread that is scheduled whenever it can
\* take a step: a thread of the interpreter is never starved
SpecFair == Init /\ [][Next]_vars /\ WF_vars(kafka_producer)

TypeOK ==
    /\ DOMAIN db \subseteq Ids
    /\ \A i \in DOMAIN db :
         db[i].state \in States /\ load_job(db, i).intp_id = i
    /\ buckets \subseteq BucketNames
    /\ now \in 0..MaxTime
    /\ consumed \in 0..MaxMessages
    /\ main \in {"running", "crashed", "AttributeError", "Exception"}
    /\ rows \in [Ids -> 0..MaxMessages + 1]
    /\ pc \in {"poll", "wait", "process", "create", "insert", "commit", "dead"}
    /\ cur.kind \in {"none", "badutf8", "badjson", "invalid", "valid"}
    /\ Cardinality(held) <= 1
    /\ seen \in 0..Cardinality(Ids)
    /\ commits \in 0..MaxMessages
    /\ Cardinality(arg) <= 1 /\ Cardinality(sent) <= 1

(***************************************************************************)
(* Properties.                                                             *)
(***************************************************************************)
\* the trigger calls of the latest step
LastCalls == { last[i] : i \in 1..Len(last) }

Raised(c) == { i \in 1..Len(c.hooks) : c.hooks[i].result # "none" }

HookIndexes(c, name) == { i \in 1..Len(c.hooks) : c.hooks[i].name = name }

\* the notifications a call put on the queue for an event
NotesFor(c, event) ==
    { i \in 1..Len(c.notes) :
        c.notes[i].run_name = c.id /\ c.notes[i].event = event }

\* the transition table as the specification states it
LegalDest(trig, s) ==
    CASE trig = "create" /\ s = REQUESTED -> CREATED
      [] trig = "deploy" /\ s = CREATED -> DEPLOYED
      [] trig = "succeed" /\ s = DEPLOYED -> SUCCEEDED
      [] trig = "error" /\ s \in {REQUESTED, CREATED, DEPLOYED} -> FAILED
      [] OTHER -> None

(***************************************************************************)
(* C1.  With no hook raising, a trigger is accepted exactly in the states  *)
(* of the table (create in Requested, deploy in Created, succeed in        *)
(* Deployed, error in Requested, Created or Deployed) and leads to the     *)
(* table's destination; the state after any trigger call is a function of  *)
(* the state before and the trigger alone.                                 *)
(***************************************************************************)
C1_TransitionTable ==
    \A c \in LastCalls :
        (c.trigger \in Triggers /\ Raised(c) = {}) =>
            IF LegalDest(c.trigger, c.pre) # None
            THEN c.exc = "none" /\ c.post = LegalDest(c.trigger, c.pre)
            ELSE c.exc # "none" /\ c.post = c.pre

\* a job that was never created took error with a queue and is Failed
C1_Witness ==
    \E c \in LastCalls :
        /\ c.trigger = "error" /\ c.pre = REQUESTED /\ c.kw.queue
        /\ Len(c.hooks) = 2 /\ Raised(c) = {}
        /\ c.post = FAILED

(***************************************************************************)
(* C2.  A trigger fired in a state from which the table has no transition  *)
(* raises a machine-error to its caller, leaves the machine's state        *)
(* unchanged, puts no notification on the queue and invokes neither        *)
(* create_resources nor destroy_resources.                                 *)
(***************************************************************************)
C2_IllegalTrigger ==
    \A c \in LastCalls :
        (c.trigger \in Triggers /\ LegalDest(c.trigger, c.pre) = None) =>
            /\ c.exc = "MachineError"
            /\ c.m1 = c.m0
            /\ c.notes = << >>
            /\ c.hooks = << >>

\* error was fired on a Succeeded job, and succeed on a Created one
C2_Witness ==
    \E c \in LastCalls :
        /\ c.trigger = "error" /\ c.pre = SUCCEEDED
        /\ c.exc = "MachineError"

(***************************************************************************)
(* C3.  Terminal states are absorbing: a row whose stored state is         *)
(* Succeeded or Failed is changed by no step (poll, timeout sweeps, a      *)
(* trigger fired by hand), and it is not among the active jobs.            *)
(***************************************************************************)
C3_TerminalAbsorbing ==
    [][ \A id \in DOMAIN db :
          db[id].state \in Terminal =>
            /\ id \in DOMAIN db'
            /\ db'[id].state = db[id].state
            /\ load_job(db', id).state = load_job(db, id).state
            /\ id \notin get_active_jobs(db')
            /\ id \notin get_active_jobs(db) ]_vars

\* a trigger was fired by hand on a stored job that is terminal
C3_Witness ==
    \E c \in LastCalls :
        /\ c.by = "client" /\ c.trigger = "error"
        /\ c.id \in DOMAIN db
        /\ c.pre = SUCCEEDED /\ db[c.id].state = SUCCEEDED

(***************************************************************************)
(* C4.  destroy_resources is invoked by a terminal transition only after   *)
(* notify has put the notification for the new state on the queue.         *)
(***************************************************************************)
C4_NotifyBeforeDestroy ==
    \A c \in LastCalls : \A i \in HookIndexes(c, "destroy_resources") :
        c.trigger \in Triggers =>
            /\ c.hooks[i].state \in Terminal
            /\ \E j \in HookIndexes(c, "notify") :
                 /\ j < i
                 /\ c.hooks[j].result = "none"
                 /\ c.hooks[j].state = c.hooks[i].state
                 /\ c.hooks[j].trigger = c.hooks[i].trigger
            /\ NotesFor(c, c.hooks[i].state) # {}

\* a sweep or a poll made a terminal transition and destroyed resources
C4_Witness ==
    \E c \in LastCalls :
        /\ c.post \in Terminal
        /\ HookIndexes(c, "destroy_resources") # {}

(***************************************************************************)
(* C5.  Whenever a machine enters Failed, exactly one notification with    *)
(* event Failed for that job is put on the notify queue.                   *)
(* The exception policy breaks it: handle_error fires error with no queue. *)
(***************************************************************************)
C5_FailedIsNotified ==
    \A c \in LastCalls :
        (c.trigger \in Triggers /\ c.pre # FAILED /\ c.post = FAILED) =>
            Cardinality(NotesFor(c, FAILED)) = 1

(***************************************************************************)
(* C6.  Every transition of a job into Succeeded or Failed invokes         *)
(* destroy_resources once, the transition taken by the exception policy    *)
(* included.                                                               *)
(***************************************************************************)
C6_CleanupOnTerminal ==
    \A c \in LastCalls :
        (c.trigger \in Triggers /\ c.pre \notin Terminal /\ c.post \in Terminal)
            => Cardinality(HookIndexes(c, "destroy_resources")) = 1

(***************************************************************************)
(* C7.  If the work bucket exists when create_resources runs, the handler  *)
(* sets its work-bucket-existed flag, creates and changes nothing and      *)
(* raises FileExistsError; and no destroy_resources call on a handler      *)
(* whose flag is set deletes the work bucket.                              *)
(***************************************************************************)
C7_WorkBucketSafety ==
    [][ \A c \in { last'[i] : i \in 1..Len(last') } :
          /\ \A i \in HookIndexes(c, "create_resources") :
               ( /\ ~c.m0.dry_run
                 /\ c.trigger = "create" => c.kw.job_model
                 /\ work_bucket(c.id) \in buckets ) =>
                   /\ c.m1.work_bucket_existed_on_create
                   /\ c.hooks[i].result = "FileExistsError"
                   /\ c.hooks[i].created = {} /\ c.hooks[i].deleted = {}
                   /\ c.m1.helm_installed = c.m0.helm_installed
                   /\ buckets' = buckets /\ releases' = releases
          /\ \A i \in HookIndexes(c, "destroy_resources") :
               c.m0.work_bucket_existed_on_create =>
                   /\ work_bucket(c.id) \notin c.hooks[i].deleted
                   /\ work_bucket(c.id) \in buckets
                        => work_bucket(c.id) \in buckets' ]_vars

\* destroy_resources ran on a handler that had found its work bucket, and
\* the bucket is there
C7_Witness ==
    \E c \in LastCalls :
        /\ HookIndexes(c, "destroy_resources") # {}
        /\ ~c.m0.dry_run
        /\ c.m0.work_bucket_existed_on_create
        /\ work_bucket(c.id) \in buckets

(***************************************************************************)
(* C8.  No destroy_resources call deletes a bucket, work or results, that  *)
(* the handler flagged as existing on create.                              *)
(* _delete_buckets never reads the flag of the results bucket.             *)
(***************************************************************************)
C8_NoFlaggedBucketDeleted ==
    \A c \in LastCalls : \A i \in HookIndexes(c, "destroy_resources") :
        /\ c.m0.work_bucket_existed_on_create
             => work_bucket(c.id) \notin c.hooks[i].deleted
        /\ c.m0.results_bucket_existed_on_create
             => results_bucket(c.id) \notin c.hooks[i].deleted

(***************************************************************************)
(* C9, as claimed.  If a hook of a transition raises, the error trigger is *)
(* fired inside the call and the machine is Failed when the call ends.     *)
(***************************************************************************)
C9_ExceptionPolicy ==
    \A c \in LastCalls :
        (c.trigger \in Triggers /\ Raised(c) # {}) =>
            /\ Len(c.fired) >= 2 /\ c.fired[2] = "error"
            /\ c.post = FAILED

\* the first hook of a call that raised
FirstRaised(c) == c.hooks[CHOOSE i \in Raised(c) : \A j \in Raised(c) : i <= j]

(***************************************************************************)
(* C9, amended.  If a hook of a transition raises, the error trigger is    *)
(* fired inside the call; the machine is Failed when the call ends, unless *)
(* the hook was an after hook of succeed: the machine is then Succeeded    *)
(* already, the error trigger is refused with a machine-error and the      *)
(* state stays Succeeded.                                                  *)
(***************************************************************************)
C9_ExceptionPolicyAmended ==
    \A c \in LastCalls :
        (c.trigger \in Triggers /\ Raised(c) # {}) =>
            /\ Len(c.fired) >= 2 /\ c.fired[2] = "error"
            /\ IF FirstRaised(c).trigger = "succeed"
               THEN c.post = SUCCEEDED /\ c.exc = "MachineError"
               ELSE c.post = FAILED

\* provisioning raised during create and the machine is Failed
C9_Witness ==
    \E c \in LastCalls :
        /\ c.trigger = "create" /\ c.pre = REQUESTED
        /\ Raised(c) # {} /\ FirstRaised(c).name = "create_resources"
        /\ c.post = FAILED

(***************************************************************************)
(* C10.  create moves the machine to Created only when both buckets were   *)
(* created and the chart install succeeded; when a provisioning step fails *)
(* the machine goes to Failed instead.                                     *)
(* create_resources swallows the ValueError of a failed chart install.     *)
(***************************************************************************)
C10_CreatedOnlyIfProvisioned ==
    \A c \in LastCalls :
        (c.trigger = "create" /\ c.pre = REQUESTED /\ ~c.m0.dry_run) =>
            /\ c.post \in {CREATED, FAILED}
            /\ c.post = CREATED <=>
                 /\ c.hooks[1].created
                       = {work_bucket(c.id), results_bucket(c.id)}
                 /\ c.m1.helm_installed
                 /\ release_name(c.id) \in releases

\* the job object the consumer holds
HeldJob == CHOOSE m \in held : TRUE

(***************************************************************************)
(* C11.  The table holds at most one row per id, whatever the consumer     *)
(* inserts and the main loop updates in between; an insert of an id that   *)
(* is present is rejected with an error and leaves the row of that id (its *)
(* state and its blob) as it was.                                          *)
(***************************************************************************)
C11_OneRowPerId ==
    /\ [](\A i \in Ids : rows[i] <= 1 /\ (i \in DOMAIN db <=> rows[i] = 1))
    /\ [][ (pc = "insert" /\ pc' # "insert"
              /\ HeldJob.intp_id \in DOMAIN db) =>
              /\ cur'.outcome = "IntegrityError"
              /\ rows' = rows
              /\ DOMAIN db' = DOMAIN db
              /\ db'[HeldJob.intp_id] = db[HeldJob.intp_id] ]_vars

\* the consumer provisioned a job for an id whose row the main loop had
\* moved to Failed, and its insert was rejected
C11_Witness ==
    /\ pc = "commit" /\ cur.outcome = "IntegrityError"
    /\ cur.id \in DOMAIN db /\ db[cur.id].state = FAILED
    /\ HeldJob.state = CREATED
    /\ rows[cur.id] = 1

\* the triggers a machine accepts
Accepts(m) == { t \in Triggers : TransitionsOf(t, m.state) # {} }

Enqueued(q0, q1, id, event) ==
    { k \in Len(q0) + 1 .. Len(q1) :
        q1[k].run_name = id /\ q1[k].event = event }

(***************************************************************************)
(* C13.  After one run of timeout_jobs every row that was Requested or     *)
(* Created and as old as the threshold is stored as Failed, and exactly    *)
(* one Failed notification was enqueued for it.                            *)
(* A destroy_resources that raises ends the sweep with a machine-error     *)
(* before update_job: the row stays as it was and the rows after it are    *)
(* not visited.                                                            *)
(***************************************************************************)
C13_UndeployedTimeout ==
    [][ (\E i \in 1..Len(last') : last'[i].by = "timeout_jobs") =>
          \A id \in timeout_jobs_selected(db, now) :
              /\ db'[id].state = FAILED
              /\ Cardinality(Enqueued(queue, queue', id, FAILED)) = 1 ]_vars

(***************************************************************************)
(* C14.  Back-pressure: while the consumer is processing a message (from   *)
(* the decoding to the insert) its latest reading of the number of active  *)
(* jobs is below MAX_CONCURRENT_JOBS; a reading is the number of active    *)
(* rows at that moment, and on a reading at or above the cap the consumer  *)
(* changes nothing and stays in the loop.                                  *)
(***************************************************************************)
C14_BackPressure ==
    /\ [](pc \in {"process", "create", "insert"}
            => seen < MAX_CONCURRENT_JOBS)
    /\ [][ (pc = "wait" /\ (pc' # pc \/ seen' # seen)) =>
              /\ seen' = Cardinality(get_active_jobs(db))
              /\ pc' = IF seen' >= MAX_CONCURRENT_JOBS THEN "wait"
                        ELSE "process"
              /\ UNCHANGED <<db, rows, buckets, releases, queue, cur, held,
                             commits, consumed>> ]_vars

\* the consumer read a number at the cap and sleeps with a valid message in
\* hand, and the poll has since ended a job
C14_Witness ==
    /\ pc = "wait" /\ cur.kind = "valid"
    /\ seen >= MAX_CONCURRENT_JOBS
    /\ Cardinality(get_active_jobs(db)) < MAX_CONCURRENT_JOBS

C16_RejectedMessage ==
    [][ ( /\ cur.kind \in {"badutf8", "badjson", "invalid"}
          /\ pc \in {"process", "commit"}
          /\ pc' # pc ) =>
            /\ UNCHANGED <<db, rows, buckets, releases, queue>>
            /\ pc = "process" => pc' = "commit"
            /\ pc = "commit" => (commits' = commits + 1 /\ pc' = "poll")
      ]_vars

(***************************************************************************)
(* C17.  Happy path, with no external call failing: a valid launch message *)
(* for a new id yields a row stored as Created and no notification; a poll *)
(* that observes Running on it stores Deployed and enqueues exactly one    *)
(* notification, with event Deployed; a later poll that observes Succeeded *)
(* stores Succeeded and enqueues exactly one notification, with event      *)
(* Succeeded, after which the work bucket is gone and the results bucket   *)
(* exists.                                                                 *)
(***************************************************************************)
C17_HappyPath ==
    [][ \A c \in { last'[i] : i \in 1..Len(last') } :
          /\ ( /\ c.by = "process_message" /\ c.exc = "none"
               /\ c.id \notin DOMAIN db ) =>
                 /\ c.id \in DOMAIN db'
                 /\ db'[c.id].state = CREATED
                 /\ load_job(db', c.id).state = CREATED
                 /\ c.notes = << >> /\ queue' = queue
          /\ (c.by = "check_job_state" /\ c.trigger = "deploy") =>
                 /\ c.pre = CREATED
                 /\ db'[c.id].state = DEPLOYED
                 /\ Len(c.notes) = 1
                 /\ Cardinality(Enqueued(queue, queue', c.id, DEPLOYED)) = 1
          /\ ( /\ c.by = "check_job_state" /\ c.trigger = "succeed"
               /\ c.pre = DEPLOYED /\ Raised(c) = {} ) =>
                 /\ db'[c.id].state = SUCCEEDED
                 /\ Len(c.notes) = 1
                 /\ Cardinality(Enqueued(queue, queue', c.id, SUCCEEDED)) = 1
                 /\ work_bucket(c.id) \notin buckets'
                 /\ results_bucket(c.id) \in buckets' ]_vars

\* a poll observed Succeeded on a Deployed job whose chart was installed:
\* the row is Succeeded, the work bucket is gone, the results bucket is not
C17_Witness ==
    \E c \in LastCalls :
        /\ c.by = "check_job_state" /\ c.trigger = "succeed"
        /\ c.m0.helm_installed /\ Raised(c) = {}
        /\ db[c.id].state = SUCCEEDED
        /\ release_name(c.id) \notin releases
        /\ work_bucket(c.id) \notin buckets
        /\ results_bucket(c.id) \in buckets

(***************************************************************************)
(* C18.  A notification whose event is Failed is serialised with exactly   *)
(* the keys run_name, utc_time, event, trace_name and trace_exit, the      *)
(* trace keys being there also when their values are null; a notification  *)
(* with any other event is serialised with exactly run_name, utc_time and  *)
(* event, also when trace values were given.                               *)
(***************************************************************************)
C18_NotificationShape ==
    \A m \in arg : \A j \in sent :
        /\ j.run_name = m.run_name
        /\ j.utc_time = m.utc_time
        /\ j.event = m.event
        /\ IF m.event = FAILED
           THEN /\ DOMAIN j = {"run_name", "utc_time", "event",
                               "trace_name", "trace_exit"}
                /\ j.trace_name = m.trace_name
                /\ j.trace_exit = m.trace_exit
           ELSE DOMAIN j = {"run_name", "utc_time", "event"}

\* a Deployed message that was given trace values was serialised
C18_Witness ==
    \E m \in arg : \E j \in sent :
        /\ m.event = DEPLOYED
        /\ m.trace_name = ErrorReport /\ m.trace_exit = 12
        /\ DOMAIN j = {"run_name", "utc_time", "event"}

(***************************************************************************)
(* C19.  For one id, transitions are serialised: the consumer runs a       *)
(* trigger only for an id that has no row (once, before the insert), and   *)
(* while the consumer is inside job.trigger("create") for an id the main   *)
(* loop runs no trigger for that id.                                       *)
(* A launch message with an id that is stored is not told from a new one   *)
(* before the INSERT: the consumer runs create for it, and the main loop   *)
(* may poll the stored job of that id in the meantime.                     *)
(***************************************************************************)
C19_PerIdSerialisation ==
    [][ \A i \in 1..Len(last') :
          /\ last'[i].by = "process_message" => last'[i].id \notin DOMAIN db
          /\ (last'[i].by # "process_message" /\ pc = "create")
                => last'[i].id # HeldJob.intp_id ]_vars

\* the tasks of the main loop
MainLoopTasks == {"check_job_state", "timeout_jobs", "timeout_deployed_jobs"}

(***************************************************************************)
(* C20.  After a task of the main loop took a job to Succeeded or Failed   *)
(* and the trigger call returned (the clean-up has run), the job store has *)
(* no row for the id.                                                      *)
(***************************************************************************)
C20_RemovedAfterTerminal ==
    [][ \A i \in 1..Len(last') :
          (/\ last'[i].by \in MainLoopTasks
           /\ last'[i].post \in Terminal
           /\ last'[i].exc = "none")
            => last'[i].id \notin DOMAIN db' ]_vars

(***************************************************************************)
(* C20, amended.  No step removes a row.  After a task of the main loop    *)
(* took a job to Succeeded or Failed and the trigger call returned, the    *)
(* row of the id is still there with its created_at, its state column is   *)
(* the terminal state, load_job returns the machine as the transition left *)
(* it, and the id is not among the active jobs.                            *)
(***************************************************************************)
C20_KeptAfterTerminal ==
    [][ /\ DOMAIN db \subseteq DOMAIN db'
        /\ \A i \in 1..Len(last') :
             (/\ last'[i].by \in MainLoopTasks
              /\ last'[i].post \in Terminal
              /\ last'[i].exc = "none")
               => /\ last'[i].id \in DOMAIN db'
                  /\ db'[last'[i].id].state = last'[i].post
                  /\ db'[last'[i].id].created_at = db[last'[i].id].created_at
                  /\ load_job(db', last'[i].id) = last'[i].m1
                  /\ last'[i].id \notin get_active_jobs(db') ]_vars

\* timeout_jobs failed a job, its clean-up ran, and the row is loaded Failed
C20_Witness ==
    \E c \in LastCalls :
        /\ c.by = "timeout_jobs" /\ c.post = FAILED /\ c.exc = "none"
        /\ HookIndexes(c, "destroy_resources") # {} /\ Raised(c) = {}
        /\ c.id \in DOMAIN db
        /\ load_job(db, c.id).state = FAILED

(***************************************************************************)
(* C21.  At every moment no two distinct active jobs of the store have the *)
(* same work bucket name or the same results bucket name (the names are    *)
(* made of the namespace and the lower-cased id), two ids that differ only *)
(* in letter case included.                                                *)
(* The consumer tells a name in use only by bucket.exists(); between the   *)
(* trigger that deleted the buckets of a job and the update_job that       *)
(* stores it as Failed, a job whose id differs in case can be created and  *)
(* inserted.                                                               *)
(***************************************************************************)
C21_UniqueBucketNames ==
    \A i, j \in get_active_jobs(db) :
        i # j => /\ work_bucket(i) # work_bucket(j)
                 /\ results_bucket(i) # results_bucket(j)

\* the state that a destroy_resources call was given: the state a direct
\* caller passed, or the machine's state when the hook ran
DestroyState(c, h) ==
    IF c.trigger = "handler" THEN c.post ELSE c.hooks[h].state

(***************************************************************************)
(* C22.  A destroy_resources(state) call that returns, on a handler with   *)
(* neither bucket flagged as having existed on create, has deleted the     *)
(* work bucket, whatever the chart-installed flag, and has deleted the     *)
(* results bucket exactly when state is Failed: after Succeeded the        *)
(* results bucket is still there, after Failed both buckets are gone.      *)
(***************************************************************************)
C22_DestroyDeletes ==
    \A c \in LastCalls : \A h \in HookIndexes(c, "destroy_resources") :
        (/\ c.hooks[h].result = "none"
         /\ ~c.m0.dry_run
         /\ ~c.m0.work_bucket_existed_on_create
         /\ ~c.m0.results_bucket_existed_on_create)
        => /\ work_bucket(c.id) \in c.hooks[h].deleted
           /\ work_bucket(c.id) \notin buckets
           /\ IF DestroyState(c, h) = FAILED
              THEN results_bucket(c.id) \notin buckets
              ELSE /\ results_bucket(c.id) \notin c.hooks[h].deleted
                   /\ c.hooks[h].deleted = { work_bucket(c.id) }

\* destroy_resources(Succeeded) returned on a handler that made its two
\* buckets and whose chart install had failed: the results bucket is there
C22_Witness ==
    \E c \in LastCalls : \E h \in HookIndexes(c, "destroy_resources") :
        /\ c.hooks[h].result = "none"
        /\ ~c.m0.dry_run /\ ~c.m0.helm_installed
        /\ ~c.m0.work_bucket_existed_on_create
        /\ ~c.m0.results_bucket_existed_on_create
        /\ DestroyState(c, h) = SUCCEEDED
        /\ work_bucket(c.id) \in c.hooks[h].deleted
        /\ results_bucket(c.id) \in buckets

\* a destroy_resources hook call ran helm uninstall: the release was
\* removed, or the uninstall raised its ValueError
UninstallInvoked(hook) ==
    hook.uninstalled # {} \/ hook.result = "ValueError"

RanTask(by, calls) == \E i \in 1..Len(calls) : calls[i].by = by

(***************************************************************************)
(* C24.  A run of timeout_deployed_jobs stores as Failed exactly the rows  *)
(* that are Deployed and whose created_at (the time of the insert) is at   *)
(* or before now minus DEPLOYED_TIMEOUT_SECONDS, and leaves every other    *)
(* row as it is; a run of timeout_jobs leaves as it is every row that is   *)
(* Deployed, Succeeded or Failed or younger than TIMEOUT_SECONDS.          *)
(* When destroy_resources raises in the sweep, the Deployed row that is    *)
(* due stays Deployed (see C13).                                           *)
(***************************************************************************)
C24_DeployedTimeout ==
    [][ /\ RanTask("timeout_deployed_jobs", last') =>
             \A id \in DOMAIN db :
                 IF /\ db[id].state = DEPLOYED
                    /\ db[id].created_at <= now - DEPLOYED_TIMEOUT_SECONDS
                 THEN db'[id].state = FAILED
                 ELSE db'[id] = db[id]
        /\ RanTask("timeout_jobs", last') =>
             \A id \in DOMAIN db :
                 (\/ db[id].state \in {DEPLOYED, SUCCEEDED, FAILED}
                  \/ db[id].created_at > now - TIMEOUT_SECONDS)
                    => db'[id] = db[id] ]_vars

\* the target state of a remote status, as the specification states it
TargetOf(status) ==
    CASE status = "SUCCEEDED" -> SUCCEEDED
      [] status \in {"FAILED", "UNKNOWN"} -> FAILED
      [] status = "RUNNING" -> DEPLOYED
      [] OTHER -> None

\* the trigger of a target state, as the specification states it
TriggerOf(target) ==
    CASE target = FAILED -> "error"
      [] target = SUCCEEDED -> "succeed"
      [] target = DEPLOYED -> "deploy"

\* the indexes of the trigger calls of a step that are for an id
CallsFor(calls, id) == { i \in 1..Len(calls) : calls[i].id = id }

(***************************************************************************)
(* C25.  In a pass of check_job_state, for every job the platform answered *)
(* for: when the answer is no workflow or several, or Submitted, or maps   *)
(* to the stored state of the job, the row is unchanged, no trigger is     *)
(* fired and nothing is enqueued for the job; otherwise exactly the        *)
(* trigger of the target state is fired, with the notify queue, and the    *)
(* job as the trigger left it is then written to its row.                  *)
(* A trigger call that raises (succeed on a job stored as Created, or a    *)
(* destroy_resources that fails) is not followed by update_job.            *)
(***************************************************************************)
C25_PollAndUpdate ==
    [][ \A id \in DOMAIN polled' :
          polled'[id].status # "HTTPError" =>
            IF \/ TargetOf(polled'[id].status) = None
               \/ TargetOf(polled'[id].status) = db[id].state
            THEN /\ CallsFor(last', id) = {}
                 /\ db'[id] = db[id]
                 /\ \A ev \in States : Enqueued(queue, queue', id, ev) = {}
            ELSE /\ Cardinality(CallsFor(last', id)) = 1
                 /\ \A i \in CallsFor(last', id) :
                      /\ last'[i].trigger
                            = TriggerOf(TargetOf(polled'[id].status))
                      /\ last'[i].kw.queue
                      /\ db'[id].state = last'[i].post
                      /\ load_job(db', id) = last'[i].m1 ]_vars

\* the first line of an error report as the platform sent it
FirstLine(raw) == IF raw = << >> THEN None ELSE raw[1]

(***************************************************************************)
(* C26.  In a pass of check_job_state, for every job whose remote status   *)
(* maps to Failed (FAILED or UNKNOWN): the error trigger is fired on a job *)
(* whose trace_exit and trace_name are already the exit status and the     *)
(* first line of the error report of the remote log, the Failed            *)
(* notification the trigger enqueues carries them, and so does the job     *)
(* stored in the row after the pass.                                       *)
(* The values are read from a second request for the log: when that one    *)
(* finds no workflow the pass raises before the trigger; and when          *)
(* destroy_resources raises in the trigger, update_job is not reached and  *)
(* the stored job keeps its empty trace fields (see C13).                  *)
(***************************************************************************)
C26_TraceOnFailure ==
    [][ \A id \in DOMAIN polled' :
          polled'[id].status \in {"FAILED", "UNKNOWN"} =>
            LET exit == polled'[id].exitStatus
                name == FirstLine(polled'[id].raw)
            IN /\ \E i \in CallsFor(last', id) :
                    /\ last'[i].trigger = "error"
                    /\ last'[i].m0.trace_exit = exit
                    /\ last'[i].m0.trace_name = name
               /\ \E k \in Enqueued(queue, queue', id, FAILED) :
                    /\ queue'[k].trace_exit = exit
                    /\ queue'[k].trace_name = name
               /\ load_job(db', id).trace_exit = exit
               /\ load_job(db', id).trace_name = name ]_vars

(***************************************************************************)
(* C27.  A step in which the consumer thread meets a KafkaError (while     *)
(* connecting or iterating, or while committing) sets                      *)
(* KAFKA_CONSUMER_NOT_OK and ends the thread; as long as the thread is not *)
(* started again it takes no message, commits nothing and writes no row.   *)
(***************************************************************************)
C27_ConsumerBusError ==
    [][ /\ (cur.outcome # "KafkaError" /\ cur'.outcome = "KafkaError")
             => (KAFKA_CONSUMER_NOT_OK' /\ pc' = "dead")
        /\ (cur.outcome = "KafkaError" /\ cur'.outcome = "KafkaError")
             => /\ pc' = "dead"
                /\ consumed' = consumed
                /\ commits' = commits
                /\ db' = db
                /\ held' = held ]_vars

\* the commit of a processed message raised: the flag is set, the thread
\* has ended, the offset is not committed
C27_Witness ==
    /\ cur.outcome = "KafkaError"
    /\ cur.kind = "valid"
    /\ pc = "dead"
    /\ KAFKA_CONSUMER_NOT_OK
    /\ consumed = 1 /\ commits = 0
    /\ cur.id \in DOMAIN db

(***************************************************************************)
(* C28.  When the producer thread has met a KafkaError while publishing,   *)
(* KAFKA_PRODUCER_NOT_OK is set for the main loop to see.                  *)
(* producer.send is not covered by the except clause that sets the flag:   *)
(* the thread ends and the flag stays clear.                               *)
(***************************************************************************)
C28_ProducerFlag == producer = "KafkaError" => KAFKA_PRODUCER_NOT_OK

\* the values the cap on bus failures can be configured to
CapValues == 0..2

\* a step of the head of the main loop that restarted a worker or ended
\* the process
Ticked ==
    /\ main = "running"
    /\ \/ main' \in {"AttributeError", "Exception"}
       \/ KAFKA_CONSUMER_NOT_OK /\ ~KAFKA_CONSUMER_NOT_OK'
       \/ KAFKA_PRODUCER_NOT_OK /\ ~KAFKA_PRODUCER_NOT_OK'

(***************************************************************************)
(* C30.  A tick of the main loop starts again each worker whose flag is    *)
(* set, clears the flag and adds one to kafka_fail_count per flag; no      *)
(* other step changes the counter; and the tick ends the process exactly   *)
(* when the counter is then above the cap, whatever value the cap has.     *)
(* Settings has no field MAX_KAFKA_FAILS: the comparison raises            *)
(* AttributeError on the first tick, with the counter at 0.                *)
(***************************************************************************)
C30_Supervision ==
    [][ /\ Ticked =>
             /\ ~KAFKA_CONSUMER_NOT_OK' /\ ~KAFKA_PRODUCER_NOT_OK'
             /\ kafka_fail_count' = kafka_fail_count
                   + FlagsSet(KAFKA_CONSUMER_NOT_OK, KAFKA_PRODUCER_NOT_OK)
             /\ KAFKA_CONSUMER_NOT_OK => pc' = "poll"
             /\ KAFKA_PRODUCER_NOT_OK => producer' = "running"
             /\ \E cap \in CapValues :
                  (main' # "running") <=> (kafka_fail_count' > cap)
        /\ ~Ticked => kafka_fail_count' = kafka_fail_count ]_vars

\* a notification for an event of a job is on the queue
Queued(id, ev) ==
    \E k \in 1..Len(queue) : queue[k].run_name = id /\ queue[k].event = ev

\* the producer has handed a notification for an event of a job to send
Published(id, ev) == \E m \in arg : m.run_name = id /\ m.event = ev

\* q0 is the beginning of q1
StartsWith(q1, q0) ==
    Len(q0) <= Len(q1) /\ SubSeq(q1, 1, Len(q0)) = q0

(***************************************************************************)
(* C29.  The notify queue is a FIFO that only the producer drains: a step  *)
(* either leaves the queued notifications in place (and may append), or    *)
(* takes the oldest one off and publishes it serialised; and with a        *)
(* producer that is never starved, a notification that is on the queue is  *)
(* eventually published.                                                   *)
(* When a scheduled task raises (see C13) the process ends with the        *)
(* notifications of that task still on the in-memory queue.                *)
(***************************************************************************)
C29_FifoPublished ==
    /\ [][ \/ StartsWith(queue', queue)
           \/ /\ queue # << >>
              /\ queue' = Tail(queue)
              /\ arg' = { Head(queue) }
              /\ sent' = { serialize_model(Head(queue)) } ]_vars
    /\ \A id \in Ids : \A ev \in States :
         Queued(id, ev) ~> Published(id, ev)

(***************************************************************************)
(* C31.  In a pass of check_job_state, a job whose request to the platform *)
(* fails (the request raises, or the response cannot be used) is left as   *)
(* it is: no trigger is fired on it, its row is unchanged, nothing is      *)
(* enqueued for it, and the main loop is still running afterwards, so the  *)
(* job is polled again.                                                    *)
(* Nothing between get_job_state and the while loop of main catches the    *)
(* exception of the request: it ends the process.                          *)
(***************************************************************************)
C31_RemoteApiError ==
    [][ \A id \in DOMAIN polled' :
          polled'[id].status = "HTTPError" =>
            /\ CallsFor(last', id) = {}
            /\ db'[id] = db[id]
            /\ \A ev \in States : Enqueued(queue, queue', id, ev) = {}
            /\ main' = "running" ]_vars

(***************************************************************************)
(* C32.  A run of bucket_clean_up that got the listing called delete on    *)
(* exactly the listed buckets whose name starts with the prefix and whose  *)
(* time_created is more than fourteen days before the time of the run;     *)
(* afterwards the project holds the listed buckets except those whose      *)
(* delete did not raise; and a delete that raised did not end the main     *)
(* loop.                                                                   *)
(***************************************************************************)
C32_BucketCleanUp ==
    [][ cleanup' # cleanup =>
          \A r \in cleanup' :
              /\ r.called = { b \in r.listing :
                                /\ startswith(b.name, bucket_prefix)
                                /\ r.at - b.time_created > TWO_WEEKS }
              /\ project' = r.listing \ (r.called \ r.failing)
              /\ main' = "running" ]_vars

\* a run in which the delete of the first of two expired buckets raised,
\* next to a bucket that is exactly fourteen days old and one of another
\* namespace
C32_Witness ==
    \E r \in cleanup :
        /\ Cardinality(r.called) = 2
        /\ Cardinality(r.failing) = 1
        /\ \A f \in r.failing : ListRank(f.name) = 1
        /\ \E b \in r.listing \ r.called :
              startswith(b.name, bucket_prefix)
        /\ \E b \in r.listing : ~startswith(b.name, bucket_prefix)

\* the latest step was a task of the main loop in which destroy_resources
\* raised on the job after its transition to a terminal state
DestroyFailed(id, ev) ==
    \E i \in 1..Len(last) :
        /\ last[i].by \in MainLoopTasks
        /\ last[i].id = id
        /\ \E h \in HookIndexes(last[i], "destroy_resources") :
              /\ last[i].hooks[h].state = ev
              /\ last[i].hooks[h].result # "none"

(***************************************************************************)
(* C33.  When destroy_resources raises in a transition to Succeeded or     *)
(* Failed that the poll or a timeout sweep fired, the notification of that *)
(* state is on the notify queue at that moment, and, the producer not      *)
(* being starved, it is published afterwards.                              *)
(* notify does run before destroy_resources; but the exception of          *)
(* destroy_resources ends the process (see C13), and the producer with it. *)
(***************************************************************************)
C33_PublishedDespiteDestroy ==
    \A id \in Ids : \A ev \in Terminal :
        /\ [](DestroyFailed(id, ev) => Queued(id, ev))
        /\ DestroyFailed(id, ev) ~> Published(id, ev)

(***************************************************************************)
(* C34.  In every reachable state the number of rows whose state is        *)
(* neither Succeeded nor Failed is at most MAX_CONCURRENT_JOBS.            *)
(***************************************************************************)
C34_ActiveJobsCapped ==
    Cardinality(get_active_jobs(db)) <= MAX_CONCURRENT_JOBS

\* the consumer waited at the cap, and a job it then inserted brought the
\* table back to the cap
C34_Witness ==
    /\ seen = MAX_CONCURRENT_JOBS - 1
    /\ \E id \in DOMAIN db \ {cur.id} : db[id].state \in Terminal
    /\ cur.outcome = "accepted"
    /\ cur.id \in get_active_jobs(db)
    /\ Cardinality(get_active_jobs(db)) = MAX_CONCURRENT_JOBS

\* the events of the notifications enqueued for a job so far, by this
\* process and by the ones before it, in order
Life(id) ==
    LET all == earlier \o queue
        F[k \in 0..Len(all)] ==
            IF k = 0 THEN << >>
            ELSE IF all[k].run_name = id THEN Append(F[k - 1], all[k].event)
            ELSE F[k - 1]
    IN F[Len(all)]

(***************************************************************************)
(* C35.  For every job, the notifications enqueued for it since it was     *)
(* inserted, by this process and by the ones before it, have the events    *)
(* Deployed, Succeeded and Failed only, at most one Deployed and at most    *)
(* one of Succeeded and Failed, the Deployed one first; and a notification *)
(* carries the state the machine was in when notify ran.                   *)
(* After destroy_resources raised in a sweep the row still holds the       *)
(* earlier state (see C13): the next process sweeps the job again and      *)
(* enqueues a second Failed notification.                                  *)
(***************************************************************************)
C35_NotificationSequence ==
    /\ \A id \in Ids :
         LET life == Life(id) IN
         /\ \A k \in 1..Len(life) : life[k] \in {DEPLOYED, SUCCEEDED, FAILED}
         /\ Cardinality({ k \in 1..Len(life) : life[k] = DEPLOYED }) <= 1
         /\ Cardinality({ k \in 1..Len(life) : life[k] \in Terminal }) <= 1
         /\ \A j, k \in 1..Len(life) :
              (life[j] = DEPLOYED /\ life[k] \in Terminal) => j < k
    /\ \A i \in 1..Len(last) : \A k \in 1..Len(last[i].notes) :
         \E h \in HookIndexes(last[i], "notify") :
             last[i].hooks[h].state = last[i].notes[k].event

(***************************************************************************)
(* C36.  Every trigger that a pass of check_job_state fires on a job has a *)
(* transition from the state the job was stored in; and a job stored as    *)
(* Created that the platform reports as SUCCEEDED is stored as Succeeded   *)
(* after the pass, unless a hook raised.                                   *)
(* state_trigger_map gives succeed for the target Succeeded, and succeed   *)
(* has a transition from Deployed only.                                    *)
(***************************************************************************)
C36_LegalTriggers ==
    [][ \A id \in DOMAIN polled' :
          /\ \A i \in CallsFor(last', id) :
                TransitionsOf(last'[i].trigger, db[id].state) # {}
          /\ ( /\ db[id].state = CREATED
               /\ polled'[id].status = "SUCCEEDED"
               /\ \A i \in CallsFor(last', id) : Raised(last'[i]) = {} )
                => db'[id].state = SUCCEEDED ]_vars

\* the consumer has a message in hand and is in its while loop, having
\* read a number of active jobs at the cap
Blocked == pc = "wait" /\ backpressure(seen)

C38_FlagOnEveryStop ==
    [][ /\ (pc # "dead" /\ pc' = "dead") => KAFKA_CONSUMER_NOT_OK'
        /\ (producer = "running" /\ producer' # "running")
              => KAFKA_PRODUCER_NOT_OK' ]_vars

\* the tasks of the main loop that fire triggers on stored jobs
SweepTasks == {"check_job_state", "timeout_jobs", "timeout_deployed_jobs"}

(***************************************************************************)
(* C39.  When a trigger fired by the poll or by a timeout sweep changed    *)
(* the state of the machine, the row holds that state when the task ends,  *)
(* also when an after hook raised; and a timeout sweep handles every row   *)
(* it selected, whatever happened to the rows before it.                   *)
(* update_job is the statement after job.trigger, with no try around the   *)
(* two: a destroy_resources that raises leaves the machine Failed, the row *)
(* as it was, and the rest of the result set unvisited.                    *)
(***************************************************************************)
C39_WrittenBeforeSweepEnds ==
    [][ /\ \A i \in 1..Len(last') :
              (last'[i].by \in SweepTasks /\ last'[i].post # last'[i].pre)
                 => load_job(db', last'[i].id).state = last'[i].post
        /\ (\E i \in 1..Len(last') : last'[i].by = "timeout_jobs")
              => \A id \in timeout_jobs_selected(db, now) :
                    \E i \in 1..Len(last') : last'[i].id = id
        /\ (\E i \in 1..Len(last') : last'[i].by = "timeout_deployed_jobs")
              => \A id \in timeout_deployed_jobs_selected(db, now) :
                    \E i \in 1..Len(last') : last'[i].id = id ]_vars

(***************************************************************************)
(* C40.  In every row the state column is the state of the machine         *)
(* pickled in the blob of that row and the key is that machine's id, after *)
(* every insert and every update; and no step removes a row or changes its *)
(* created_at, so that both timeout queries measure the age of a job from  *)
(* its insertion.                                                          *)
(***************************************************************************)
C40_RowConsistent ==
    /\ [](\A id \in DOMAIN db :
            /\ db[id].state = pickle_loads(db[id].job).state
            /\ pickle_loads(db[id].job).intp_id = id)
    /\ [][ \A id \in DOMAIN db :
              /\ id \in DOMAIN db'
              /\ db'[id].created_at = db[id].created_at ]_vars

\* a row inserted after the start, later written Failed by a timeout
\* sweep that returned, keeps the time of its insertion
C40_Witness ==
    \E i \in 1..Len(last) :
        /\ last[i].by = "timeout_jobs"
        /\ last[i].exc = "none"
        /\ last[i].pre = CREATED
        /\ db[last[i].id].state = FAILED
        /\ db[last[i].id].created_at > 0
        /\ db[last[i].id].created_at < now

====
